---- MODULE Spec2Model ----
(***************************************************************************)
(* Verification model of tajtiattila/metadata.                             *)
(*                                                                         *)
(* Part 1: the JPEG segment scanner (src/jpeg/jpeg.go).                    *)
(* Part 2: the JPEG rewriter (jpegFmt.WriteWithMeta, WriteChunk).          *)
(* Part 3: the MP4 top-level box editor (File.AddUuid, File.replace).      *)
(* Part 4: the MP4 optimizer (File.Optimize).                              *)
(* Part 5: the EXIF codec (DecodeBytes, Exif.EncodeBytes).                 *)
(*                                                                         *)
(* Every part has its own specification (SpecScan, SpecRewrite, ...); the  *)
(* variables of the other parts stay at their idle values.                 *)
(***************************************************************************)
EXTENDS Integers, Sequences, FiniteSets, TLC

VARIABLES
    src,        \* scanner: the bytes the underlying reader delivers
    rdMax,      \* scanner: the most bytes one Read of the reader returns
    j,          \* scanner: the Scanner struct (and its reader's position)
    items,      \* scanner: what the caller got after each Next() = true
    lastNext,   \* scanner: "none", "true" or "false": result of the last Next()
    rest,       \* scanner: the bytes read from Reader() once drained
    phase,      \* scanner: "scanning" or "drained"
    meta,       \* rewriter: the supplied blob list m, of [Name, Bytes]
    wFailAt,    \* rewriter: the Write call of w that fails (0: none does)
    wout,       \* rewriter: the bytes written to w
    rwErr,      \* rewriter: "none" before the call, then the error returned
    rwOp,       \* rewriter: "none", or the entry point that was called
    rwSeek,     \* rewriter: the reader handed in is an io.ReadSeeker
    f,          \* mp4: the File, [Child |-> the top-level boxes]
    calls,      \* mp4: the number of calls made on f
    prevChild,  \* mp4: f.Child before the last call
    lastData,   \* mp4: the data of the last AddUuid call
    lastPath,   \* mp4: the way the last call took
    panicked,   \* mp4: "" or the message of the panic that ended the last call
    blobB,      \* exif: the blob B handed to DecodeBytes, <<>> if there is none
    exifX,      \* exif: the Exif value X
    exifX0,     \* exif: X as it was before EncodeBytes
    encP,       \* exif: the bytes EncodeBytes returned
    exifX2,     \* exif: the Exif value X' decoded from encP
    exifStage,  \* exif: how far the calls got
    exifErr,    \* exif: the error or panic of the last call
    xmPacket,   \* xmp: the document of the packet to load
    xmpM,         \* xmp: the Meta
    xmHow,      \* xmp: "new", or the call that loaded the document, or "failed"
    xmOps,      \* xmp: the number of Set and Delete calls made
    xmLast,     \* xmp: the last call, with its result
    mdM,        \* metadata: the Metadata that update works on
    mdN,        \* metadata: the number of update calls made
    mdLast,     \* metadata: the last call, with its arguments and result
    fileC,      \* file: the source and the ops, [src, eofWithData, ops]
    fileR,      \* file: the opreader
    fileRead,   \* file: the bytes read from ops.Reader(r) so far
    fileErr,    \* file: the error of the last Read
    fileCopy,   \* file: what ops.Copy wrote, once it has run
    dirD,       \* dir: the Dir the calls work on
    dirLast,    \* dir: the last call, the Dir before it and what it returned
    tmTags,     \* time: the entries of the Exif value, by tag
    tmLast      \* time: the last call of Exif.Time and what it returned

scanVars == <<src, rdMax, j, items, lastNext, rest, phase>>

rwVars == <<meta, wFailAt, wout, rwErr, rwOp, rwSeek>>

mp4Vars == <<f, calls, prevChild, lastData, lastPath, panicked>>

exifVars == <<blobB, exifX, exifX0, encP, exifX2, exifStage, exifErr>>

xmpVars == <<xmPacket, xmpM, xmHow, xmOps, xmLast>>

metaVars == <<mdM, mdN, mdLast>>

fileVars == <<fileC, fileR, fileRead, fileErr, fileCopy>>

dirVars == <<dirD, dirLast>>

timeVars == <<tmTags, tmLast>>

afterFileVars == <<dirVars, timeVars>>
afterMetaVars == <<fileVars, afterFileVars>>
afterXmpVars == <<metaVars, afterMetaVars>>

\* The variables of the parts after the EXIF codec.
laterVars == <<xmpVars, afterXmpVars>>

\* What the calls of a part leave alone.
xmpFrame == <<scanVars, rwVars, mp4Vars, exifVars, afterXmpVars>>
metaFrame == <<scanVars, rwVars, mp4Vars, exifVars, xmpVars, afterMetaVars>>
fileFrame == <<scanVars, rwVars, mp4Vars, exifVars, xmpVars, metaVars, afterFileVars>>
dirFrame == <<scanVars, rwVars, mp4Vars, exifVars, xmpVars, metaVars, fileVars, timeVars>>
timeFrame == <<scanVars, rwVars, mp4Vars, exifVars, xmpVars, metaVars, fileVars, dirVars>>

vars == <<scanVars, rwVars, mp4Vars, exifVars, laterVars>>

----------------------------------------------------------------------------
(* Generic helpers *)

Min(a, b) == IF a < b THEN a ELSE b

Max(a, b) == IF a > b THEN a ELSE b

\* The Go slice p[a:b] (zero-based, half-open).
Slice(p, a, b) == SubSeq(p, a + 1, b)

\* LET x == e IN F(x), with e evaluated once however often F uses x.
Let(e, F(_)) == CHOOSE res \in {F(x) : x \in {e}} : TRUE

\* copy(dst[at:], q): overwrite dst from index at with as much of q as fits.
CopyAt(dst, at, q) ==
    Let(<<dst, at, q>>, LAMBDA a :
        IF a[2] >= Len(a[1]) THEN a[1]
        ELSE LET n == Min(Len(a[3]), Len(a[1]) - a[2]) IN
             SubSeq(a[1], 1, a[2]) \o SubSeq(a[3], 1, n)
                 \o SubSeq(a[1], a[2] + n + 1, Len(a[1])))

RECURSIVE Flatten(_)
Flatten(ss) == IF ss = <<>> THEN <<>> ELSE Head(ss) \o Flatten(Tail(ss))

Zeros(n) == [i \in 1..n |-> 0]

----------------------------------------------------------------------------
(* Part 1: the JPEG scanner *)

\* Scaled-down sizes: the code allocates a 4096-byte buffer (jpeg.go:45) and
\* tops it up to readAhead = 32 bytes (jpeg.go:108).  The model keeps the
\* relations the code relies on (4 <= ReadAhead <= BufSize).
BufSize == 8
ReadAhead == 4

\* Marker bytes.
MarkFF == 255
MarkSOI == 216
MarkRSTlo == 208
MarkEOI == 217
MarkSOS == 218
MarkAPP0 == 224
MarkAPP1 == 225

scanStateBegin == 0
scanStateNormal == 1
scanStateScan == 2

\* One Read of the underlying reader into a slice with `room` bytes of room,
\* at reader position pos: (n, err).  End of input is (0, EOF).
rr_Read(pos, room) ==
    IF pos >= Len(src)
    THEN [n |-> 0, err |-> "EOF"]
    ELSE [n |-> Min(Min(room, rdMax), Len(src) - pos), err |-> "nil"]

\* io.ReadAtLeast(j.rr, buf, min): fills buf from index 0.
\* The loop state is [n, err, buf, pos]: bytes read, error, buffer, position.
RECURSIVE ReadAtLeastLoop(_, _)
ReadAtLeastLoop(st, min) ==
    Let(st, LAMBDA a :
        IF a.n >= min THEN a
        ELSE LET rd == rr_Read(a.pos, Len(a.buf) - a.n) IN
             IF rd.err # "nil"
             THEN [a EXCEPT !.err = IF a.n > 0 /\ rd.err = "EOF"
                                    THEN "UnexpectedEOF" ELSE rd.err]
             ELSE ReadAtLeastLoop(
                      [a EXCEPT !.pos = @ + rd.n,
                                !.buf = CopyAt(@, a.n, Slice(src, a.pos, a.pos + rd.n)),
                                !.n = @ + rd.n],
                      min))

ReadAtLeast(pos, buf, min) ==
    Let([n |-> 0, err |-> "nil", buf |-> buf, pos |-> pos], LAMBDA a :
        IF Len(a.buf) < min
        THEN [a EXCEPT !.err = "ShortBuffer"]
        ELSE ReadAtLeastLoop(a, min))

\* nextMarker: the position of the next marker in p, or len(p)-2.
nextMarker(p) ==
    Let(p, LAMBDA q :
        LET n == Len(q) - 2
            IsMark(i) == /\ q[i + 1] = MarkFF
                         /\ q[i + 2] # MarkFF
                         /\ q[i + 2] # 0
                         /\ ~(MarkRSTlo <= q[i + 2] /\ q[i + 2] <= MarkEOI)
        IN  IF \E i \in 0..(n - 1) : IsMark(i)
            THEN CHOOSE i \in 0..(n - 1) :
                     IsMark(i) /\ \A k \in 0..(i - 1) : ~IsMark(k)
            ELSE n)

\* chunkLen: the number of bytes of the chunk at the head of p, -1 if invalid.
chunkLen(p) ==
    Let(p, LAMBDA q :
        IF Len(q) < 4 THEN -1
        ELSE LET l == q[3] * 256 + q[4] IN
             IF l < 2 THEN -1 ELSE l + 2)

\* NewScanner: the Scanner after construction, or the error.
NewScanner ==
    Let(ReadAtLeast(0, Zeros(BufSize), 2), LAMBDA ra :
        LET j0 == [buf |-> ra.buf, r |-> 0, w |-> ra.n, startChunk |-> FALSE,
                   chunkLen |-> 0, p |-> <<>>, scanState |-> scanStateBegin,
                   err |-> "nil", formatError |-> 0, rr |-> ra.pos]
        IN  IF ra.err # "nil"
            THEN [ok |-> FALSE,
                  err |-> IF ra.err = "EOF" THEN "UnexpectedEOF" ELSE ra.err,
                  j |-> j0]
            ELSE IF ra.buf[1] # MarkFF \/ ra.buf[2] # MarkSOI
            THEN [ok |-> FALSE, err |-> "ErrNotJpeg", j |-> j0]
            ELSE [ok |-> TRUE, err |-> "nil", j |-> j0])

\* Next, lines 83-100: the rest of a chunk that did not fit the buffer.
NextRemaining(s) ==
    LET min == Min(s.chunkLen, Len(s.buf)) IN
    Let(ReadAtLeast(s.rr, s.buf, min), LAMBDA ra :
        LET err == IF ra.err = "EOF" THEN "UnexpectedEOF" ELSE ra.err IN
        IF err # "nil"
        THEN [j |-> [s EXCEPT !.buf = ra.buf, !.rr = ra.pos, !.err = err],
              ok |-> FALSE]
        ELSE [j |-> [s EXCEPT !.buf = ra.buf, !.rr = ra.pos,
                              !.p = Slice(ra.buf, 0, min),
                              !.r = min, !.w = ra.n,
                              !.chunkLen = @ - min],
              ok |-> TRUE])

\* Next, lines 112-120: top the buffer up to ReadAhead bytes.
RECURSIVE FillBuffer(_)
FillBuffer(st) ==
    Let(st, LAMBDA s :
        IF s.err = "nil" /\ s.r + ReadAhead > s.w
        THEN Let(IF s.r # 0
                 THEN [s EXCEPT !.buf = CopyAt(s.buf, 0, Slice(s.buf, s.r, s.w)),
                                !.r = 0, !.w = s.w - s.r]
                 ELSE s,
                 LAMBDA s1 :
                 LET rd == rr_Read(s1.rr, Len(s1.buf) - s1.w) IN
                 FillBuffer([s1 EXCEPT
                     !.buf = CopyAt(s1.buf, s1.w, Slice(src, s1.rr, s1.rr + rd.n)),
                     !.w = @ + rd.n, !.err = rd.err, !.rr = @ + rd.n]))
        ELSE s)

\* Next, lines 153-164: a marker whose declared length is below 2.
NextInvalidLen(s) ==
    LET st == s.r + 4
        r1 == s.r + 4
        s1 == [s EXCEPT !.formatError = @ + 1, !.r = r1,
                        !.p = Slice(s.buf, st, r1)]
    IN  IF r1 = s.w THEN [s1 EXCEPT !.r = 0, !.w = 0] ELSE s1

\* Next, lines 122-177: classify what is at the read position.
NextClassify(st) ==
    Let(st, LAMBDA s :
    LET n == s.w - s.r IN
    IF n < 4
    THEN LET p == Slice(s.buf, s.r, s.w) IN
         [j |-> [s EXCEPT !.formatError = @ + 1, !.p = p, !.r = 0, !.w = 0],
          ok |-> Len(p) # 0]
    ELSE
    LET s1 == IF s.err = "EOF" THEN [s EXCEPT !.err = "nil"] ELSE s
        i == nextMarker(Slice(s1.buf, s1.r, s1.w))
    IN  IF i > 0
        THEN [j |-> [s1 EXCEPT !.p = Slice(s1.buf, s1.r, s1.r + i), !.r = @ + i],
              ok |-> TRUE]
        ELSE IF s1.buf[s1.r + 2] = MarkSOS
        THEN [j |-> [s1 EXCEPT !.p = <<>>, !.scanState = scanStateScan],
              ok |-> FALSE]
        ELSE
        LET l == chunkLen(Slice(s1.buf, s1.r, Len(s1.buf))) IN
        IF l = -1
        THEN [j |-> NextInvalidLen(s1), ok |-> TRUE]
        ELSE IF s1.r + l <= s1.w
        THEN [j |-> [s1 EXCEPT !.startChunk = TRUE,
                               !.p = Slice(s1.buf, s1.r, s1.r + l),
                               !.r = @ + l],
              ok |-> TRUE]
        ELSE LET p == Slice(s1.buf, s1.r, s1.w) IN
             [j |-> [s1 EXCEPT !.startChunk = TRUE, !.p = p,
                               !.chunkLen = l - Len(p), !.r = 0, !.w = 0],
              ok |-> TRUE])

\* Scanner.Next: the scanner after the call and the value returned.
Scanner_Next(st) ==
    Let(st, LAMBDA s :
        IF s.err # "nil" THEN [j |-> s, ok |-> FALSE]
        ELSE IF s.scanState = scanStateBegin
        THEN [j |-> [s EXCEPT !.p = Slice(s.buf, 0, 2), !.r = 2,
                              !.scanState = scanStateNormal],
              ok |-> TRUE]
        ELSE IF s.scanState = scanStateScan THEN [j |-> s, ok |-> FALSE]
        ELSE Let([s EXCEPT !.p = <<>>, !.startChunk = FALSE], LAMBDA s1 :
                 IF s1.chunkLen > 0
                 THEN NextRemaining(s1)
                 ELSE NextClassify(FillBuffer([s1 EXCEPT !.chunkLen = 0]))))

\* Scanner.Reader read to its end: the buffered bytes, then the reader's.
Scanner_Reader(s) ==
    Slice(s.buf, s.r, s.w) \o Slice(src, s.rr, Len(src))

----------------------------------------------------------------------------
(* Scanner inputs: FF D8, then up to MaxItems items, then an optional tail. *)

MaxItems == 3

ItemFill == <<MarkFF>>
ItemJunk == <<0>>
ItemRst == <<MarkFF, MarkEOI>>
ItemLen0 == <<MarkFF, MarkAPP1, 0, 0>>
ItemLen1 == <<MarkFF, MarkAPP0, 0, 1>>
ItemSeg2 == <<MarkFF, MarkAPP0, 0, 2>>
ItemSeg3 == <<MarkFF, MarkAPP1, 0, 3, 7>>
ItemLong == <<MarkFF, 219, 0, 10, 1, 2, 3, 4, 5, 6, MarkFF, MarkSOS>>

ScanItems ==
    {ItemFill, ItemJunk, ItemRst, ItemLen0, ItemLen1, ItemSeg2, ItemSeg3, ItemLong}

TailSOS == <<MarkFF, MarkSOS, 0, 2, 5, MarkFF, MarkEOI>>

ScanTails == {<<>>, TailSOS}

RECURSIVE ItemSeqs(_)
ItemSeqs(n) ==
    IF n = 0 THEN {<<>>}
    ELSE LET shorter == ItemSeqs(n - 1) IN
         shorter \cup {s \o it : s \in {t \in shorter : TRUE}, it \in ScanItems}

ScanInputs ==
    {<<MarkFF, MarkSOI>> \o s \o t : s \in ItemSeqs(MaxItems), t \in ScanTails}

ReadSizes == {1, 3, BufSize}

\* The idle values of each part's variables.
ScanIdle ==
    /\ j = [err |-> "nil"]
    /\ items = <<>>
    /\ lastNext = "none"
    /\ rest = <<>>
    /\ phase = "idle"

RewriteIdle ==
    /\ meta = <<>>
    /\ wFailAt = 0
    /\ wout = <<>>
    /\ rwErr = "none"
    /\ rwOp = "none"
    /\ rwSeek = TRUE

\* No byte stream is being read.
NoStream ==
    /\ src = <<>>
    /\ rdMax = 1

\* The EXIF part before anything is decoded: x is the zero Exif.
ExifIdle ==
    /\ blobB = <<>>
    /\ exifX = [ByteOrder |-> "none", IFD0 |-> <<>>, IFD1 |-> <<>>, Exif |-> <<>>,
            GPS |-> <<>>, Interop |-> <<>>, Thumb |-> <<>>]
    /\ exifX0 = exifX
    /\ encP = <<>>
    /\ exifX2 = exifX
    /\ exifStage = "idle"
    /\ exifErr = ""

\* The XMP part before a document is loaded.
XmpIdle ==
    /\ xmPacket = [root |-> "none", descs |-> <<>>]
    /\ xmpM = [Doc |-> xmPacket, rdf |-> FALSE, attr |-> <<>>, descr |-> <<>>]
    /\ xmHow = "idle"
    /\ xmOps = 0
    /\ xmLast = [op |-> "none"]

\* Package metadata before its first call.
MetaIdle ==
    /\ mdM = [Attr |-> <<>>]
    /\ mdN = 0
    /\ mdLast = [op |-> "idle"]

\* The parts after package metadata, and those after the XMP part, at rest.
FileIdle ==
    /\ fileC = [src |-> <<>>, eofWithData |-> FALSE, ops |-> <<>>]
    /\ fileR = [ro |-> 0, i |-> 0, do |-> 0, pos |-> 0]
    /\ fileRead = <<>>
    /\ fileErr = "idle"
    /\ fileCopy = [done |-> FALSE]

\* No Dir is being edited, no time is being read.
DirIdle ==
    /\ dirD = <<>>
    /\ dirLast = [op |-> "idle"]

TimeIdle ==
    /\ tmTags = <<>>
    /\ tmLast = [op |-> "idle"]

FileRestIdle == DirIdle /\ TimeIdle
MetaRestIdle == FileIdle /\ FileRestIdle
XmpRestIdle == MetaIdle /\ MetaRestIdle

LaterIdle == XmpIdle /\ XmpRestIdle

Mp4Idle ==
    /\ f = [Child |-> <<>>]
    /\ calls = 0
    /\ prevChild = <<>>
    /\ lastData = <<>>
    /\ lastPath = "none"
    /\ panicked = ""

InitScan ==
    /\ src \in ScanInputs
    /\ rdMax \in ReadSizes
    /\ j = NewScanner.j
    /\ items = <<>>
    /\ lastNext = "none"
    /\ rest = <<>>
    /\ phase = "scanning"
    /\ RewriteIdle
    /\ Mp4Idle
    /\ ExifIdle
    /\ LaterIdle

\* One iteration of `for s.Next() { ... s.Bytes() ... }`.
DoNext ==
    /\ phase = "scanning"
    /\ lastNext # "false"
    /\ \E nx \in {Scanner_Next(j)} :
       /\ j' = nx.j
       /\ lastNext' = IF nx.ok THEN "true" ELSE "false"
       /\ items' = IF nx.ok
                   THEN Append(items, [bytes |-> nx.j.p, start |-> nx.j.startChunk])
                   ELSE items
    /\ UNCHANGED <<src, rdMax, rest, phase, rwVars, mp4Vars, exifVars, laterVars>>

\* After the loop: read Reader() to its end.
DoReader ==
    /\ phase = "scanning"
    /\ lastNext = "false"
    /\ rest' = Scanner_Reader(j)
    /\ phase' = "drained"
    /\ UNCHANGED <<src, rdMax, j, items, lastNext, rwVars, mp4Vars, exifVars, laterVars>>

NextScan == DoNext \/ DoReader

SpecScan == InitScan /\ [][NextScan]_vars

Yielded == Flatten([i \in 1..Len(items) |-> items[i].bytes])

\* C1: when scanning ended with Err() == nil, the yielded slices followed by
\* the bytes of Reader() are exactly the input.
C1_RoundTrip ==
    (phase = "drained" /\ j.err = "nil") => Yielded \o rest = src

\* How many bytes of the input the scanner has handed on.
StreamPos(s) == s.rr - (s.w - s.r)

\* At offset pos of the input stands a marker other than SOS whose declared
\* length is 0 or 1.
BadHeaderAt(pos) ==
    /\ pos + 4 <= Len(src)
    /\ src[pos + 1] = MarkFF
    /\ src[pos + 2] \notin {MarkFF, 0, MarkSOS}
    /\ ~(MarkRSTlo <= src[pos + 2] /\ src[pos + 2] <= MarkEOI)
    /\ src[pos + 3] * 256 + src[pos + 4] < 2

\* The scanner is between items, before SOS, with no error.
BetweenItems ==
    /\ phase = "scanning"
    /\ lastNext # "false"
    /\ j.err = "nil"
    /\ j.scanState = scanStateNormal
    /\ j.chunkLen = 0

\* C25: a call of Next at a marker with declared length 0 or 1 returns true
\* with Bytes() the four header bytes and StartChunk() false, counts one
\* format error, and leaves the scanner at the byte after the four.
C25_BadLengthItem ==
    [][(BetweenItems /\ BadHeaderAt(StreamPos(j))) =>
          /\ lastNext' = "true"
          /\ j'.p = Slice(src, StreamPos(j), StreamPos(j) + 4)
          /\ ~j'.startChunk
          /\ j'.formatError = j.formatError + 1
          /\ StreamPos(j') = StreamPos(j) + 4]_vars


----------------------------------------------------------------------------
(* Part 2: the JPEG rewriter *)

\* "Exif\x00\x00"
jpegExifPfx == <<69, 120, 105, 102, 0, 0>>

\* "http://ns.adobe.com/xap/1.0/\x00"
jpegXMPPfx ==
    <<104, 116, 116, 112, 58, 47, 47, 110, 115, 46, 97, 100, 111, 98, 101, 46,
      99, 111, 109, 47, 120, 97, 112, 47, 49, 46, 48, 47, 0>>

\* "JFIF\x00" and "JFXX\x00"
jfifChunkHeader == <<74, 70, 73, 70, 0>>
jfxxChunkHeader == <<74, 70, 88, 88, 0>>

HasPrefix(s, pfx) == Len(s) >= Len(pfx) /\ SubSeq(s, 1, Len(pfx)) = pfx

isChunkSegment(seg, marker, pfx) ==
    /\ Len(seg) >= 4
    /\ seg[1] = MarkFF
    /\ seg[2] = marker
    /\ HasPrefix(Slice(seg, 4, Len(seg)), pfx)

\* Scanner.ReadChunk (called ReadSegment by the rewriter): the current chunk
\* read whole into a new slice: the scanner after the call, the slice, the error.
\* The loop state is [j, p, n]: the scanner, the new slice, the bytes in it.
RECURSIVE ReadChunkLoop(_)
ReadChunkLoop(st) ==
    Let(st, LAMBDA a :
        LET s == a.j
            p == a.p
            n == a.n
        IN
        IF s.err = "nil" /\ s.chunkLen > 0
        THEN IF s.chunkLen > Len(s.buf)
             THEN \* read large chunk directly into p
                  Let(ReadAtLeast(s.rr, Zeros(Len(p) - n), Len(p) - n), LAMBDA ra :
                      LET m == ra.n IN
                      ReadChunkLoop(
                          [j |-> [s EXCEPT !.rr = ra.pos, !.chunkLen = @ - m,
                                           !.err = IF m = 0 /\ ra.err = "nil"
                                                   THEN "UnexpectedEOF" ELSE ra.err],
                           p |-> CopyAt(p, n, Slice(ra.buf, 0, m)),
                           n |-> n + m]))
             ELSE \* read into buffer
                  Let(ReadAtLeast(s.rr, s.buf, s.chunkLen), LAMBDA ra :
                      LET m == Min(Len(p) - n, ra.n) IN
                      ReadChunkLoop(
                          [j |-> [s EXCEPT !.rr = ra.pos, !.buf = ra.buf,
                                           !.r = m, !.w = ra.n, !.chunkLen = @ - m,
                                           !.err = IF m = 0 /\ ra.err = "nil"
                                                   THEN "UnexpectedEOF" ELSE ra.err],
                           p |-> CopyAt(p, n, Slice(ra.buf, 0, m)),
                           n |-> n + m]))
        ELSE [j |-> s, p |-> Slice(p, 0, n), err |-> s.err])

Scanner_ReadChunk(st) ==
    Let(st, LAMBDA s :
        IF s.err # "nil" THEN [j |-> s, p |-> <<>>, err |-> s.err]
        ELSE ReadChunkLoop([j |-> [s EXCEPT !.p = <<>>],
                            p |-> s.p \o Zeros(s.chunkLen),
                            n |-> Len(s.p)]))

\* w.Write(p): the writer after the call and the error.  The writer is
\* [out: the bytes written, n: the number of Write calls made].
w_Write(W0, p) ==
    Let(W0, LAMBDA W :
        IF W.n + 1 = wFailAt
        THEN [w |-> [W EXCEPT !.n = @ + 1], err |-> "WriteErr"]
        ELSE [w |-> [out |-> W.out \o p, n |-> W.n + 1], err |-> "nil"])

\* errw.write: the error of the last write replaces the recorded one.
errw_write(ww, p) ==
    LET r == w_Write(ww.w, p) IN [w |-> r.w, err |-> r.err]

\* WriteChunk(w, marker, chunkdata)
WriteChunk(W, marker, chunkdata) ==
    LET n == Len(chunkdata) + 4 IN
    IF n > 65535 THEN [w |-> W, err |-> "ErrTooLong"]
    ELSE LET hdr == <<MarkFF, marker, (n \div 256) % 256, n % 256>> IN
         Let(w_Write(W, hdr), LAMBDA r1 :
             IF r1.err # "nil" THEN r1
             ELSE w_Write(r1.w, chunkdata))

\* WriteWithMeta, lines 280-293: the blobs with their prefixes, in list order.
RECURSIVE metaChunksOf(_)
metaChunksOf(m) ==
    IF m = <<>> THEN <<>>
    ELSE LET rm == Head(m)
             c == IF rm.Name = "exif" THEN <<jpegExifPfx \o rm.Bytes>>
                  ELSE IF rm.Name = "xmp" THEN <<jpegXMPPfx \o rm.Bytes>>
                  ELSE <<>>
         IN  c \o metaChunksOf(Tail(m))

\* WriteWithMeta, lines 305-326: read every segment before SOS and sort it
\* into jfifSeg, jfxxSeg, dropped metadata, and segments.
RECURSIVE ScanSegments(_)
ScanSegments(st0) ==
    Let(st0, LAMBDA st :
    Let(Scanner_Next(st.j), LAMBDA nx :
        IF ~nx.ok THEN [st EXCEPT !.j = nx.j]
        ELSE Let(Scanner_ReadChunk(nx.j), LAMBDA rc :
             LET seg == rc.p IN
             IF rc.err # "nil" THEN [st EXCEPT !.j = rc.j, !.err = rc.err]
             ELSE IF st.jfifSeg = <<>> /\ isChunkSegment(seg, MarkAPP0, jfifChunkHeader)
             THEN ScanSegments([st EXCEPT !.j = rc.j, !.jfifSeg = seg])
             ELSE IF st.jfxxSeg = <<>> /\ isChunkSegment(seg, MarkAPP0, jfxxChunkHeader)
             THEN ScanSegments([st EXCEPT !.j = rc.j, !.jfxxSeg = seg])
             ELSE IF \/ isChunkSegment(seg, MarkAPP1, jpegExifPfx)
                     \/ isChunkSegment(seg, MarkAPP1, jpegXMPPfx)
             THEN ScanSegments([st EXCEPT !.j = rc.j])
             ELSE ScanSegments([st EXCEPT !.j = rc.j,
                                          !.segments = Append(@, seg)]))))

\* WriteWithMeta, lines 337-342
RECURSIVE WriteMetaChunks(_, _)
WriteMetaChunks(W, cs) ==
    IF cs = <<>> THEN [w |-> W, err |-> "nil"]
    ELSE Let(WriteChunk(W, MarkAPP1, Head(cs)), LAMBDA r :
             IF r.err # "nil" THEN r ELSE WriteMetaChunks(r.w, Tail(cs)))

\* WriteWithMeta, lines 345-347
RECURSIVE WriteSegments(_, _)
WriteSegments(ww, segs) ==
    IF segs = <<>> THEN ww
    ELSE Let(errw_write(ww, Head(segs)), LAMBDA ww1 :
             WriteSegments(ww1, Tail(segs)))

\* io.Copy(w, j.Reader())
CopyRest(W, s) ==
    LET data == Scanner_Reader(s) IN
    IF data = <<>> THEN [w |-> W, err |-> "nil"] ELSE w_Write(W, data)

\* jpegFmt.WriteWithMeta(w, r, m): the writer after the call and the error.
WriteWithMeta(W, m) ==
    Let(NewScanner, LAMBDA ns :
    IF ~ns.ok THEN [w |-> W, err |-> ns.err]
    ELSE
    Let(ScanSegments([j |-> ns.j, segments |-> <<>>, jfifSeg |-> <<>>,
                      jfxxSeg |-> <<>>, err |-> "nil"]), LAMBDA st :
        IF st.err # "nil" THEN [w |-> W, err |-> st.err]
        ELSE IF st.j.err # "nil" THEN [w |-> W, err |-> st.j.err]
        ELSE
        Let(errw_write([w |-> W, err |-> "nil"], st.segments[1]), LAMBDA ww1 :
        Let(errw_write(ww1, st.jfifSeg), LAMBDA ww2 :
        Let(errw_write(ww2, st.jfxxSeg), LAMBDA ww3 :
        Let(WriteMetaChunks(ww3.w, metaChunksOf(m)), LAMBDA mc :
            IF mc.err # "nil" THEN mc
            ELSE Let(WriteSegments([w |-> mc.w, err |-> ww3.err],
                                   Tail(st.segments)), LAMBDA ww4 :
                     IF ww4.err # "nil" THEN ww4
                     ELSE CopyRest(ww4.w, st.j))))))))

\* container.WriteTo, lines 100-113: the supplied blobs with their prefixes;
\* <<>> stands for nil.
RECURSIVE metaDataOf(_, _)
metaDataOf(m, name) ==
    IF m = <<>> THEN <<>>
    ELSE LET later == metaDataOf(Tail(m), name)
             rm == Head(m)
         IN  IF later # <<>> THEN later
             ELSE IF rm.Name # name THEN <<>>
             ELSE IF name = "exif" THEN jpegExifPfx \o rm.Bytes
             ELSE jpegXMPPfx \o rm.Bytes

hasAll == {"hasJFIF", "hasJFXX", "hasExif", "hasXMP"}

\* container.WriteTo, lines 126-159: read segments until all four header
\* kinds were seen; existing metadata is kept when none was supplied.
RECURSIVE ScanSegmentsTo(_)
ScanSegmentsTo(st0) ==
    Let(st0, LAMBDA st :
    IF st.hasMask = hasAll THEN st
    ELSE
    Let(Scanner_Next(st.j), LAMBDA nx :
        IF ~nx.ok THEN [st EXCEPT !.j = nx.j]
        ELSE Let(Scanner_ReadChunk(nx.j), LAMBDA rc :
             LET seg == rc.p IN
             IF rc.err # "nil" THEN [st EXCEPT !.j = rc.j, !.err = rc.err]
             ELSE IF st.jfifSeg = <<>> /\ isChunkSegment(seg, MarkAPP0, jfifChunkHeader)
             THEN ScanSegmentsTo([st EXCEPT !.j = rc.j, !.jfifSeg = seg,
                                            !.hasMask = @ \cup {"hasJFIF"}])
             ELSE IF st.jfxxSeg = <<>> /\ isChunkSegment(seg, MarkAPP0, jfxxChunkHeader)
             THEN ScanSegmentsTo([st EXCEPT !.j = rc.j, !.jfxxSeg = seg,
                                            !.hasMask = @ \cup {"hasJFXX"}])
             ELSE IF isChunkSegment(seg, MarkAPP1, jpegExifPfx)
             THEN ScanSegmentsTo([st EXCEPT !.j = rc.j,
                                            !.hasMask = @ \cup {"hasExif"},
                                            !.exifdata = IF @ = <<>>
                                                         THEN Slice(seg, 4, Len(seg))
                                                         ELSE @])
             ELSE IF isChunkSegment(seg, MarkAPP1, jpegXMPPfx)
             THEN ScanSegmentsTo([st EXCEPT !.j = rc.j,
                                            !.hasMask = @ \cup {"hasXMP"},
                                            !.xmpdata = IF @ = <<>>
                                                        THEN Slice(seg, 4, Len(seg))
                                                        ELSE @])
             ELSE ScanSegmentsTo([st EXCEPT !.j = rc.j,
                                            !.segments = Append(@, seg)]))))

\* container.WriteTo, lines 167-179: `if data != nil { WriteChunk(...) }`
WriteChunkIf(r, data) ==
    Let(r, LAMBDA r0 :
        IF r0.err # "nil" \/ data = <<>> THEN r0
        ELSE WriteChunk(r0.w, MarkAPP1, data))

\* container.WriteTo; the seek to the start is the scanner starting at 0.
WriteTo(W, m) ==
    Let(NewScanner, LAMBDA ns :
    IF ~ns.ok THEN [w |-> W, err |-> ns.err]
    ELSE
    Let(ScanSegmentsTo([j |-> ns.j, segments |-> <<>>, jfifSeg |-> <<>>,
                        jfxxSeg |-> <<>>, exifdata |-> metaDataOf(m, "exif"),
                        xmpdata |-> metaDataOf(m, "xmp"), hasMask |-> {},
                        err |-> "nil"]), LAMBDA st :
        IF st.err # "nil" THEN [w |-> W, err |-> st.err]
        ELSE IF st.j.err # "nil" THEN [w |-> W, err |-> st.j.err]
        ELSE
        Let(errw_write([w |-> W, err |-> "nil"], st.segments[1]), LAMBDA ww1 :
        Let(errw_write(ww1, st.jfifSeg), LAMBDA ww2 :
        Let(errw_write(ww2, st.jfxxSeg), LAMBDA ww3 :
        Let(WriteChunkIf(WriteChunkIf([w |-> ww3.w, err |-> "nil"], st.exifdata),
                         st.xmpdata), LAMBDA mc :
            IF mc.err # "nil" THEN mc
            ELSE Let(WriteSegments([w |-> mc.w, err |-> ww3.err],
                                   Tail(st.segments)), LAMBDA ww4 :
                     IF ww4.err # "nil" THEN ww4
                     ELSE CopyRest(ww4.w, st.j))))))))

\* container.WriteTo, lines 85-88: the reader must be an io.ReadSeeker.
WriteToFrom(W, m, seeker) ==
    IF ~seeker THEN [w |-> W, err |-> "ErrNotReadSeeker"] ELSE WriteTo(W, m)

----------------------------------------------------------------------------
(* Rewriter inputs: FF D8, up to MaxSegs well-formed items, then SOS and   *)
(* entropy data (or nothing); a list of at most one blob per name.         *)

MaxSegs == 3

MaxWriteFail == 1

SegOf(marker, payload) ==
    <<MarkFF, marker, ((Len(payload) + 2) \div 256) % 256, (Len(payload) + 2) % 256>>
        \o payload

RwItems ==
    { SegOf(MarkAPP0, jfifChunkHeader \o <<1>>),
      SegOf(MarkAPP0, jfxxChunkHeader),
      SegOf(MarkAPP1, jpegExifPfx \o <<9>>),
      SegOf(MarkAPP1, jpegXMPPfx \o <<8, 8>>),
      SegOf(MarkAPP1, <<2>>),
      SegOf(219, <<3, 4>>),
      ItemFill }

RECURSIVE RwItemSeqs(_)
RwItemSeqs(n) ==
    IF n = 0 THEN {<<>>}
    ELSE LET shorter == RwItemSeqs(n - 1) IN
         shorter \cup {s \o it : s \in shorter, it \in RwItems}

RwInputs ==
    {<<MarkFF, MarkSOI>> \o s \o t : s \in RwItemSeqs(MaxSegs), t \in ScanTails}

ExifBlob == [Name |-> "exif", Bytes |-> <<77, 77>>]
XmpBlob == [Name |-> "xmp", Bytes |-> <<60>>]

BlobLists ==
    {<<>>, <<ExifBlob>>, <<XmpBlob>>, <<ExifBlob, XmpBlob>>, <<XmpBlob, ExifBlob>>}

InitRewrite ==
    /\ src \in RwInputs
    /\ rdMax \in {3, BufSize}
    /\ meta \in BlobLists
    /\ wFailAt \in 0..MaxWriteFail
    /\ wout = <<>>
    /\ rwErr = "none"
    /\ rwOp = "none"
    /\ rwSeek = TRUE
    /\ ScanIdle
    /\ Mp4Idle
    /\ ExifIdle
    /\ LaterIdle

DoWriteWithMeta ==
    /\ rwOp = "none"
    /\ \E res \in {WriteWithMeta([out |-> <<>>, n |-> 0], meta)} :
       /\ wout' = res.w.out
       /\ rwErr' = res.err
    /\ rwOp' = "WriteWithMeta"
    /\ UNCHANGED <<scanVars, meta, wFailAt, rwSeek, mp4Vars, exifVars, laterVars>>

DoWriteTo ==
    /\ rwOp = "none"
    /\ \E res \in {WriteToFrom([out |-> <<>>, n |-> 0], meta, rwSeek)} :
       /\ wout' = res.w.out
       /\ rwErr' = res.err
    /\ rwOp' = "WriteTo"
    /\ UNCHANGED <<scanVars, meta, wFailAt, rwSeek, mp4Vars, exifVars, laterVars>>

NextRewrite == DoWriteWithMeta \/ DoWriteTo

SpecRewrite == InitRewrite /\ [][NextRewrite]_vars

----------------------------------------------------------------------------
(* The segment structure of a byte stream, used to state the rewriter's    *)
(* contract: a segment is FF, a marker, a two-byte length that counts      *)
(* itself, and length - 2 payload bytes.                                   *)

IsSegMarker(m) ==
    m # MarkFF /\ m # 0 /\ ~(MarkRSTlo <= m /\ m <= MarkEOI) /\ m # MarkSOS

\* The length of the segment at offset k of b, or 0 if there is none.
SegLenAt(b, k) ==
    IF Len(b) - k >= 4 /\ b[k + 1] = MarkFF /\ IsSegMarker(b[k + 2])
    THEN LET l == b[k + 3] * 256 + b[k + 4] IN
         IF l >= 2 /\ k + l + 2 <= Len(b) THEN l + 2 ELSE 0
    ELSE 0

SosAt(b, k) == Len(b) - k >= 2 /\ b[k + 1] = MarkFF /\ b[k + 2] = MarkSOS

\* The items of b up to SOS (segments, and the runs of bytes outside
\* segments), and the bytes from SOS on.
RECURSIVE RefItems(_)
RefItems(b0) ==
    Let(b0, LAMBDA b :
        IF b = <<>> THEN [items |-> <<>>, tail |-> <<>>]
        ELSE IF SosAt(b, 0) THEN [items |-> <<>>, tail |-> b]
        ELSE LET stop(k) == k = Len(b) \/ SosAt(b, k) \/ SegLenAt(b, k) > 0
                 n == IF SegLenAt(b, 0) > 0 THEN SegLenAt(b, 0)
                      ELSE CHOOSE k \in 1..Len(b) :
                               stop(k) /\ \A i \in 1..(k - 1) : ~stop(i)
             IN  Let(RefItems(Slice(b, n, Len(b))), LAMBDA r :
                     [r EXCEPT !.items = <<Slice(b, 0, n)>> \o @]))

IsExifSeg(seg) == isChunkSegment(seg, MarkAPP1, jpegExifPfx)
IsXmpSeg(seg) == isChunkSegment(seg, MarkAPP1, jpegXMPPfx)
IsJfifSeg(seg) == isChunkSegment(seg, MarkAPP0, jfifChunkHeader)
IsJfxxSeg(seg) == isChunkSegment(seg, MarkAPP0, jfxxChunkHeader)

Supplied(name) == \E i \in 1..Len(meta) : meta[i].Name = name
BlobOf(name) == meta[CHOOSE i \in 1..Len(meta) : meta[i].Name = name].Bytes

InItems == RefItems(Slice(src, 2, Len(src)))
OutItems == RefItems(Slice(wout, 2, Len(wout))).items

\* The first item of its kind, or <<>>.
FirstSeg(its, IsKind(_)) ==
    IF \E i \in 1..Len(its) : IsKind(its[i])
    THEN its[CHOOSE i \in 1..Len(its) :
                 IsKind(its[i]) /\ \A k \in 1..(i - 1) : ~IsKind(its[k])]
    ELSE <<>>

\* The items other than the first JFIF, the first JFXX and those Drop names.
Remaining(its, Drop(_)) ==
    LET isFirst(i, IsKind(_)) ==
            IsKind(its[i]) /\ \A k \in 1..(i - 1) : ~IsKind(its[k])
        keep == {i \in 1..Len(its) :
                    /\ ~isFirst(i, IsJfifSeg)
                    /\ ~isFirst(i, IsJfxxSeg)
                    /\ ~Drop(its[i])}
    IN  Flatten([i \in 1..Len(its) |-> IF i \in keep THEN its[i] ELSE <<>>])

IsPrefixOf(p, b) == Len(p) <= Len(b) /\ Slice(b, 0, Len(p)) = p
IsSuffixOf(p, b) == Len(p) <= Len(b) /\ Slice(b, Len(b) - Len(p), Len(b)) = p

\* The call returned nil and no Write of w had failed.
RwSucceeded == rwErr = "nil" /\ wFailAt = 0

HeaderLead ==
    <<MarkFF, MarkSOI>> \o FirstSeg(InItems.items, IsJfifSeg)
                        \o FirstSeg(InItems.items, IsJfxxSeg)

\* C2: in the re-scanned output there is exactly one APP1 segment with the
\* prefix of each supplied kind, and its bytes after the 4-byte header are the
\* prefix followed by the supplied blob.
C2_OneSegmentPerKind ==
    RwSucceeded =>
        LET one(name, pfx, IsKind(_)) ==
                Supplied(name) =>
                    \E i \in 1..Len(OutItems) :
                        /\ IsKind(OutItems[i])
                        /\ Slice(OutItems[i], 4, Len(OutItems[i])) = pfx \o BlobOf(name)
                        /\ \A k \in 1..Len(OutItems) : IsKind(OutItems[k]) => k = i
        IN  /\ one("exif", jpegExifPfx, IsExifSeg)
            /\ one("xmp", jpegXMPPfx, IsXmpSeg)

\* C3: only the metadata segments of the supplied kinds are removed: the
\* output starts with SOI, JFIF and JFXX and ends with every other input item
\* in input order followed by the input from SOS on.
C3_OnlySuppliedKindsRemoved ==
    RwSucceeded =>
        LET drop(seg) == \/ Supplied("exif") /\ IsExifSeg(seg)
                         \/ Supplied("xmp") /\ IsXmpSeg(seg)
            others == Remaining(InItems.items, drop) \o InItems.tail
        IN  /\ IsPrefixOf(HeaderLead, wout)
            /\ IsSuffixOf(others, wout)
            /\ Len(HeaderLead) + Len(others) <= Len(wout)

\* An APP1 segment around data, its two length bytes left open (-1).
OpenChunk(data) == <<MarkFF, MarkAPP1, -1, -1>> \o data

Matches(b, e) ==
    Len(e) <= Len(b) /\ \A i \in 1..Len(e) : e[i] = -1 \/ e[i] = b[i]

\* The APP1 the output may carry for a kind: the supplied blob, or else an
\* existing segment's data, or none.
ChunkChoices(name, pfx, IsKind(_)) ==
    IF Supplied(name) THEN {OpenChunk(pfx \o BlobOf(name))}
    ELSE {<<>>} \cup
         {OpenChunk(Slice(InItems.items[i], 4, Len(InItems.items[i]))) :
              i \in {k \in 1..Len(InItems.items) : IsKind(InItems.items[k])}}

\* C4: the bytes emitted before SOS are SOI, JFIF, JFXX, the exif APP1, the
\* xmp APP1, then the remaining non-metadata items in input order.
C4_EmissionOrder ==
    RwSucceeded =>
        LET isMeta(seg) == IsExifSeg(seg) \/ IsXmpSeg(seg) IN
        \E ex \in ChunkChoices("exif", jpegExifPfx, IsExifSeg) :
        \E xm \in ChunkChoices("xmp", jpegXMPPfx, IsXmpSeg) :
            Matches(wout, HeaderLead \o ex \o xm
                              \o Remaining(InItems.items, isMeta))

\* The calls of Write the last operation made on its writer.
WritesMade ==
    IF rwOp = "WriteWithMeta"
    THEN WriteWithMeta([out |-> <<>>, n |-> 0], meta).w.n
    ELSE IF rwOp = "WriteTo"
    THEN WriteToFrom([out |-> <<>>, n |-> 0], meta, rwSeek).w.n
    ELSE 0

\* C27: when one of the writes the rewriter made failed, the rewriter
\* returns that write's error.
C27_WriteErrorKept ==
    (rwOp # "none" /\ wFailAt > 0 /\ WritesMade >= wFailAt) => rwErr = "WriteErr"


----------------------------------------------------------------------------
(* Part 3: editing the top-level boxes of an MP4 file.  A Box is           *)
(* [Offset, Size, Ext, Type, Raw, Child]; nil slices are <<>>.              *)

UuidLen == 16

\* headerSize returns the header size needed for contentlen.
\* (contentlen+8 >= 1<<32, written with numbers below 2^31.)
headerSize(contentlen) ==
    IF (contentlen + 8) \div 65536 >= 65536 THEN 16 ELSE 8

boxSize(contentlen) == headerSize(contentlen) + contentlen

boxSizePossible(size, space) == size = space \/ space - size >= 8

\* Box{Offset: -1, Size: size, Type: typ, Raw: raw}
NewBox(typ, size, raw) ==
    [Offset |-> -1, Size |-> size, Ext |-> FALSE, Type |-> typ,
     Raw |-> raw, Child |-> <<>>]

\* Box{}
ZeroBox ==
    [Offset |-> 0, Size |-> 0, Ext |-> FALSE, Type |-> "", Raw |-> <<>>,
     Child |-> <<>>]

\* A claim's mutation of freeBoxOf: the old box is left as it is.
freeBoxOf_kept(b) == b

\* AddUuid, lines 92-97: the free box that takes the old box's place.
freeBoxOf(b) == NewBox("free", b.Size, <<>>)

\* AddUuid, lines 76-85: the index of the first uuid box with data's UUID,
\* or -1.
existingIdx(child, data) ==
    LET same(i) == /\ child[i].Type = "uuid"
                   /\ Len(child[i].Raw) >= UuidLen
                   /\ Slice(data, 0, UuidLen) = Slice(child[i].Raw, 0, UuidLen)
    IN  IF \E i \in 1..Len(child) : same(i)
        THEN (CHOOSE i \in 1..Len(child) :
                  same(i) /\ \A k \in 1..(i - 1) : ~same(k)) - 1
        ELSE -1

\* replace, lines 115-127: take free boxes after idx until newSize fits.
RECURSIVE replaceScan(_, _, _, _)
replaceScan(child, newSize, space, next) ==
    IF next < Len(child) /\ newSize # space /\ ~boxSizePossible(newSize, space)
    THEN IF child[next + 1].Type # "free"
         THEN [space |-> space, next |-> next]
         ELSE replaceScan(child, newSize, space + child[next + 1].Size, next + 1)
    ELSE [space |-> space, next |-> next]

\* f.replace(idx, newBox): [Child, ok, panic]
replace(child0, idx0, newBox) ==
    Let(child0, LAMBDA child :
    Let(replaceScan(child, newBox.Size, child[idx0 + 1].Size, idx0 + 1), LAMBDA sc :
        IF ~boxSizePossible(newBox.Size, sc.space)
        THEN [Child |-> child, ok |-> FALSE, panic |-> ""]
        ELSE
        LET space == sc.space
            next == sc.next
            c1 == [child EXCEPT ![idx0 + 1] = newBox]
            idx == idx0 + 1
            n == Len(c1)
            ndrop == (next - idx) - (IF newBox.Size < space THEN 1 ELSE 0)
            \* append(f.Child, Box{}); copy(f.Child[idx+1:], f.Child[next:])
            grown == [k \in 1..(n + 1) |->
                         IF k > idx + 1 /\ k - 1 - idx <= n - next
                         THEN c1[next + k - 1 - idx]
                         ELSE IF k <= n THEN c1[k] ELSE ZeroBox]
            \* copy(f.Child[idx:], f.Child[idx+ndrop:]);
            \* f.Child = f.Child[:len(f.Child)-next+idx]
            moved == [k \in 1..n |->
                         IF k > idx /\ k + ndrop <= n THEN c1[k + ndrop] ELSE c1[k]]
            c2 == IF ndrop < 0 THEN grown
                  ELSE IF ndrop > 0 THEN Slice(moved, 0, n - next + idx)
                  ELSE c1
        IN  IF newBox.Size = space
            THEN [Child |-> c2, ok |-> TRUE, panic |-> ""]
            ELSE IF idx >= Len(c2)
            THEN [Child |-> c2, ok |-> FALSE, panic |-> "index out of range"]
            ELSE [Child |-> [c2 EXCEPT ![idx + 1] =
                                NewBox("free", space - newBox.Size, <<>>)],
                  ok |-> TRUE, panic |-> ""]))

\* f.findFreeSpace(boxSize): the index of the first run of free boxes
\* that can take boxSize, or -1.
RECURSIVE findFreeSpaceFrom(_, _, _, _, _)
findFreeSpaceFrom(child, size, i, space, idx) ==
    IF i >= Len(child) THEN -1
    ELSE IF child[i + 1].Type = "free"
    THEN IF boxSizePossible(size, space + child[i + 1].Size) THEN idx
         ELSE findFreeSpaceFrom(child, size, i + 1, space + child[i + 1].Size, idx)
    ELSE findFreeSpaceFrom(child, size, i + 1, 0, i + 1)

findFreeSpace(child, size) == findFreeSpaceFrom(child, size, 0, 0, 0)

\* f.AddUuid(data): [Child, panic, path]
AddUuid(child0, data) ==
    Let(child0, LAMBDA child :
    IF Len(data) < UuidLen
    THEN [Child |-> child, panic |-> "len(data) < 16", path |-> "none"]
    ELSE
    LET newBox == NewBox("uuid", boxSize(Len(data)), data)
        existing == existingIdx(child, data)
    IN
    Let(IF existing # -1 THEN replace(child, existing, newBox)
        ELSE [Child |-> child, ok |-> FALSE, panic |-> ""], LAMBDA r1 :
        IF r1.ok \/ r1.panic # ""
        THEN [Child |-> r1.Child, panic |-> r1.panic, path |-> "replaced"]
        ELSE
        Let(IF existing # -1
            THEN [child EXCEPT ![existing + 1] = freeBoxOf(@)]
            ELSE child, LAMBDA c1 :
            LET room == findFreeSpace(c1, newBox.Size)
                freed == IF existing # -1 THEN "freed-" ELSE ""
            IN  IF room # -1
                THEN Let(replace(c1, room, newBox), LAMBDA r2 :
                         [Child |-> r2.Child,
                          panic |-> IF r2.panic # "" THEN r2.panic
                                    ELSE IF ~r2.ok THEN "impossible" ELSE "",
                          path |-> freed \o "placed"])
                ELSE [Child |-> Append(c1, newBox), panic |-> "",
                      path |-> freed \o "appended"])))

----------------------------------------------------------------------------
(* MP4 inputs: ftyp and up to MaxBoxes further boxes laid out from offset  *)
(* 0, at most one uuid box per UUID; up to MaxCalls calls.                 *)

MaxBoxes == 4

MaxCalls == 2

Rep(n, b) == [i \in 1..n |-> b]

\* The 16 bytes of UUID id.
UuidOf(id) == Rep(UuidLen, id)

UuidIds == {1, 2}

\* A parsed box at offset 0 (moov stands unpacked elsewhere; here it is opaque).
ParsedBox(typ, size, raw) ==
    [Offset |-> 0, Size |-> size, Ext |-> FALSE, Type |-> typ, Raw |-> raw,
     Child |-> <<>>]

TopBoxes ==
    { ParsedBox("moov", 24, Rep(16, 0)),
      ParsedBox("mdat", 32, <<>>),
      ParsedBox("free", 8, <<>>),
      ParsedBox("free", 16, <<>>),
      ParsedBox("uuid", 40, UuidOf(1) \o Rep(16, 0)),
      ParsedBox("uuid", 24, UuidOf(2)),
      ParsedBox("uuid", 16, Rep(8, 1)) }

RECURSIVE BoxSeqs(_)
BoxSeqs(n) ==
    IF n = 0 THEN {<<>>}
    ELSE LET shorter == BoxSeqs(n - 1) IN
         shorter \cup {Append(s, b) : s \in shorter, b \in TopBoxes}

\* The offsets of boxes that follow one another from offset 0.
RECURSIVE LaidOut(_, _)
LaidOut(bs, off) ==
    IF bs = <<>> THEN <<>>
    ELSE <<[Head(bs) EXCEPT !.Offset = off]>>
             \o LaidOut(Tail(bs), off + Head(bs).Size)

UuidIdxs(child, id) ==
    {i \in 1..Len(child) :
        /\ child[i].Type = "uuid"
        /\ Len(child[i].Raw) >= UuidLen
        /\ Slice(child[i].Raw, 0, UuidLen) = UuidOf(id)}

AtMostOnePerUuid(child) ==
    \A id \in UuidIds : Cardinality(UuidIdxs(child, id)) <= 1

InitialFiles ==
    {LaidOut(<<ParsedBox("ftyp", 16, Rep(8, 0))>> \o s, 0) :
         s \in {t \in BoxSeqs(MaxBoxes) : AtMostOnePerUuid(t)}}

\* The data of call number n: a UUID and a payload of bytes n.
UuidData(n) ==
    { UuidOf(1) \o Rep(24, n), UuidOf(1) \o Rep(32, n), UuidOf(2) \o Rep(0, n) }

InitUuid ==
    /\ f \in {[Child |-> c] : c \in InitialFiles}
    /\ calls = 0
    /\ prevChild = <<>>
    /\ lastData = <<>>
    /\ lastPath = "none"
    /\ panicked = ""
    /\ NoStream
    /\ ScanIdle
    /\ RewriteIdle
    /\ ExifIdle
    /\ LaterIdle

DoAddUuid ==
    /\ panicked = ""
    /\ calls < MaxCalls
    /\ \E data \in UuidData(calls + 1) :
       \E r \in {AddUuid(f.Child, data)} :
          /\ f' = [f EXCEPT !.Child = r.Child]
          /\ panicked' = r.panic
          /\ lastPath' = r.path
          /\ lastData' = data
    /\ prevChild' = f.Child
    /\ calls' = calls + 1
    /\ UNCHANGED <<scanVars, rwVars, exifVars, laterVars>>

NextUuid == DoAddUuid

SpecUuid == InitUuid /\ [][NextUuid]_vars

\* C7: the top-level list holds at most one uuid box per UUID.
C7_AtMostOneUuidBox == AtMostOnePerUuid(f.Child)

\* A second call found the box of its UUID, could not replace it in place,
\* turned it into a free box and appended the new one.
C7_Witness ==
    /\ calls >= 2
    /\ lastPath = "freed-appended"
    /\ UuidIdxs(f.Child, 1) # {}

RECURSIVE SumSizes(_, _, _)
SumSizes(child, a, b) ==
    IF a > b THEN 0 ELSE child[a].Size + SumSizes(child, a + 1, b)

\* The boxes by which an in-place replacement of the box at e succeeds: the
\* fewest free boxes after e that make room for newSize; -1 if there is none.
RECURSIVE FewestFree(_, _, _, _)
FewestFree(child, e, newSize, k) ==
    LET room == child[e].Size + SumSizes(child, e + 1, e + k) IN
    IF boxSizePossible(newSize, room) THEN k
    ELSE IF e + k + 1 <= Len(child) /\ child[e + k + 1].Type = "free"
    THEN FewestFree(child, e, newSize, k + 1)
    ELSE -1

Shape(child) == [i \in 1..Len(child) |->
                    [Type |-> child[i].Type, Size |-> child[i].Size,
                     Raw |-> child[i].Raw]]

\* C8: when the box of data's UUID and the fewest free boxes after it have
\* room S for the new size, the new box takes its place, the consumed free
\* boxes go, and one free box of S - new size follows iff S > new size.
C8_ReplaceInPlace ==
    LET e == existingIdx(prevChild, lastData) + 1
        newSize == boxSize(Len(lastData))
        k == FewestFree(prevChild, e, newSize, 0)
        S == prevChild[e].Size + SumSizes(prevChild, e + 1, e + k)
    IN  (calls > 0 /\ e > 0 /\ k >= 0) =>
            /\ panicked = ""
            /\ Shape(f.Child) =
                   Shape(Slice(prevChild, 0, e - 1)
                         \o <<NewBox("uuid", newSize, lastData)>>
                         \o (IF S > newSize
                             THEN <<NewBox("free", S - newSize, <<>>)>>
                             ELSE <<>>)
                         \o Slice(prevChild, e + k, Len(prevChild)))

\* The boxes of child that a call with data must leave alone: all but the
\* free boxes and the uuid box of data's UUID.
OtherBoxes(child, data) ==
    LET other(b) == /\ b.Type # "free"
                    /\ ~(/\ b.Type = "uuid"
                         /\ Len(b.Raw) >= UuidLen
                         /\ Slice(b.Raw, 0, UuidLen) = Slice(data, 0, UuidLen))
    IN  Shape(SelectSeq(child, other))

\* C21: a call of AddUuid that returns leaves every top-level box other than
\* the free boxes and the uuid box of its UUID in place: the same boxes, once
\* each, in the same order, with the same type, size and content.
C21_OtherBoxesKept ==
    (calls > 0 /\ panicked = "") =>
        OtherBoxes(f.Child, lastData) = OtherBoxes(prevChild, lastData)


----------------------------------------------------------------------------
(* Part 4: Optimize.  Below moov the boxes are unpacked: a parent box has   *)
(* Child, a leaf has Raw.  The Raw of an unpacked parent is never read by   *)
(* Optimize and is left out of the model.                                   *)

\* x >= 1<<32, written with numbers below 2^31.
AtLeast2p32(x) == x \div 65536 >= 65536

\* binary.BigEndian.PutUint32 / PutUint64 of a value below 2^31
U32(v) == <<(v \div 16777216) % 256, (v \div 65536) % 256, (v \div 256) % 256, v % 256>>
U64(v) == <<0, 0, 0, 0>> \o U32(v)

\* binary.BigEndian.Uint32(raw[at:]) / Uint64(raw[at:]); the callers check
\* the range.
GetU32(raw, at) ==
    raw[at + 1] * 16777216 + raw[at + 2] * 65536 + raw[at + 3] * 256 + raw[at + 4]
GetU64(raw, at) == GetU32(raw, at + 4)

\* The four bytes of a box type.
Cc4(typ) ==
    CASE typ = "ftyp" -> <<102, 116, 121, 112>>
      [] typ = "moov" -> <<109, 111, 111, 118>>
      [] typ = "mvhd" -> <<109, 118, 104, 100>>
      [] typ = "trak" -> <<116, 114, 97, 107>>
      [] typ = "mdia" -> <<109, 100, 105, 97>>
      [] typ = "minf" -> <<109, 105, 110, 102>>
      [] typ = "stbl" -> <<115, 116, 98, 108>>
      [] typ = "stco" -> <<115, 116, 99, 111>>
      [] typ = "co64" -> <<99, 111, 54, 52>>
      [] typ = "uuid" -> <<117, 117, 105, 100>>
      [] typ = "free" -> <<102, 114, 101, 101>>
      [] typ = "mdat" -> <<109, 100, 97, 116>>
      [] OTHER -> <<0, 0, 0, 0>>

boxIdx(cc4) ==
    CASE cc4 = "ftyp" -> 0
      [] cc4 = "moov" -> 1
      [] cc4 = "uuid" -> 2
      [] cc4 = "mdat" -> 4
      [] OTHER -> 3

\* sort.Stable(topLevelBoxSort(f.Child))
RECURSIVE SortStableFrom(_, _)
SortStableFrom(child, rank) ==
    IF rank > 4 THEN <<>>
    ELSE SelectSeq(child, LAMBDA b : boxIdx(b.Type) = rank)
             \o SortStableFrom(child, rank + 1)

\* The index of the first box of type typ in children, or 0.
FindIdx(children, typ) ==
    IF \E i \in 1..Len(children) : children[i].Type = typ
    THEN CHOOSE i \in 1..Len(children) :
             children[i].Type = typ /\ \A k \in 1..(i - 1) : children[k].Type # typ
    ELSE 0

\* c.Find("mdia", "minf", "stbl"): the indexes on the way, or <<>> for nil.
FindStbl(c) ==
    LET i1 == FindIdx(c.Child, "mdia")
        i2 == IF i1 = 0 THEN 0 ELSE FindIdx(c.Child[i1].Child, "minf")
        i3 == IF i2 = 0 THEN 0 ELSE FindIdx(c.Child[i1].Child[i2].Child, "stbl")
    IN  IF i3 = 0 THEN <<>> ELSE <<i1, i2, i3>>

StblOf(c, at) == c.Child[at[1]].Child[at[2]].Child[at[3]]

\* stbl.Find(typ) as [nil, b]
FindBox(stbl, typ) ==
    LET i == FindIdx(stbl.Child, typ) IN
    IF i = 0 THEN [nil |-> TRUE, b |-> ZeroBox] ELSE [nil |-> FALSE, b |-> stbl.Child[i]]

\* checkOffsetBlock(b): the number of offsets.
checkOffsetBlock(fb) ==
    IF fb.nil THEN 0
    ELSE IF fb.b.Type = "stco"
    THEN IF Len(fb.b.Raw) < 4 THEN 0
         ELSE LET n == GetU32(fb.b.Raw, 0) IN
              IF 4 + n * 4 <= Len(fb.b.Raw) THEN 0 ELSE n
    ELSE IF fb.b.Type = "co64"
    THEN IF Len(fb.b.Raw) < 8 THEN 0
         ELSE LET n == GetU32(fb.b.Raw, 4) IN
              IF 8 + n * 8 <= Len(fb.b.Raw) THEN 0 ELSE n
    ELSE 0

\* The extract function checkOffsetBlock returns, applied to i: [v, panic].
extract(b, i) ==
    LET at == IF b.Type = "stco" THEN 4 + i * 4 ELSE 8 + i * 8
        w == IF b.Type = "stco" THEN 4 ELSE 8
    IN  IF at > Len(b.Raw) THEN [v |-> 0, panic |-> "slice bounds out of range"]
        ELSE IF at + w > Len(b.Raw) THEN [v |-> 0, panic |-> "index out of range"]
        ELSE [v |-> IF w = 4 THEN GetU32(b.Raw, at) ELSE GetU64(b.Raw, at),
              panic |-> ""]

\* analyseMoov(moov), from child i on: [baselen, noffsets]
RECURSIVE analyseMoovFrom(_, _, _)
analyseMoovFrom(moov, i, acc) ==
    IF i > Len(moov.Child) THEN acc
    ELSE
    LET c == moov.Child[i]
        base == acc.baselen + c.Size
        at == IF c.Type = "trak" THEN FindStbl(c) ELSE <<>>
    IN  IF at = <<>>
        THEN analyseMoovFrom(moov, i + 1, [acc EXCEPT !.baselen = base])
        ELSE
        LET stbl == StblOf(c, at)
            stco == FindBox(stbl, "stco")
            co64 == FindBox(stbl, "co64")
            n == checkOffsetBlock(stco)
            n2 == checkOffsetBlock(co64)
        IN  analyseMoovFrom(moov, i + 1,
                IF n # 0
                THEN [baselen |-> IF co64.nil THEN base ELSE base - co64.b.Size,
                      noffsets |-> acc.noffsets + n]
                ELSE [baselen |-> base, noffsets |-> acc.noffsets + n2])

analyseMoov(moov) == analyseMoovFrom(moov, 1, [baselen |-> 0, noffsets |-> 0])

\* sort.Search(len(oo), func(i) { return oo[i] > off }); oo is ascending.
SearchAbove(oo, off) ==
    IF \E i \in 1..Len(oo) : oo[i] > off
    THEN (CHOOSE i \in 1..Len(oo) : oo[i] > off /\ \A k \in 1..(i - 1) : oo[k] <= off) - 1
    ELSE Len(oo)

\* shiftMoovOffsets, lines 139-149
shiftOne(off, oo, no) ==
    LET idx == SearchAbove(oo, off) IN
    IF idx = 0 THEN off ELSE off - oo[idx] + no[idx]

\* shiftMoovOffsets, lines 151-174: the box with the new offsets.
offsetsBox(offsets, use64bit) ==
    LET n == Len(offsets) IN
    IF use64bit
    THEN NewBox("co64", boxSize(8 + 8 * n),
                <<0, 0, 0, 0>> \o U32(n)
                    \o Flatten([i \in 1..n |-> U64(offsets[i])]))
    ELSE NewBox("stco", boxSize(4 + 4 * n),
                U32(n) \o Flatten([i \in 1..n |-> U32(offsets[i])]))

\* shiftMoovOffsets(moov, oo, no, use64bit), from child i on: [moov, panic]
RECURSIVE shiftMoovOffsetsFrom(_, _, _, _, _)
shiftMoovOffsetsFrom(moov0, i, oo, no, use64bit) ==
    Let(moov0, LAMBDA moov :
    IF i > Len(moov.Child) THEN [moov |-> moov, panic |-> ""]
    ELSE
    LET c == moov.Child[i]
        at == IF c.Type = "trak" THEN FindStbl(c) ELSE <<>>
    IN  IF at = <<>> THEN shiftMoovOffsetsFrom(moov, i + 1, oo, no, use64bit)
        ELSE
        LET stbl == StblOf(c, at)
            stco == FindBox(stbl, "stco")
            co64 == FindBox(stbl, "co64")
            n1 == checkOffsetBlock(stco)
            n == IF n1 = 0 THEN checkOffsetBlock(co64) ELSE n1
            tb == IF n1 = 0 THEN co64.b ELSE stco.b
        IN  IF n = 0 THEN shiftMoovOffsetsFrom(moov, i + 1, oo, no, use64bit)
            ELSE IF \E k \in 0..(n - 1) : extract(tb, k).panic # ""
            THEN [moov |-> moov,
                  panic |-> extract(tb, CHOOSE k \in 0..(n - 1) :
                                /\ extract(tb, k).panic # ""
                                /\ \A m \in 0..(k - 1) : extract(tb, m).panic = "").panic]
            ELSE
            LET offsets == [k \in 1..n |-> shiftOne(extract(tb, k - 1).v, oo, no)]
                kept == SelectSeq(stbl.Child,
                                  LAMBDA b : b.Type # "stco" /\ b.Type # "co64")
                stbl2 == [stbl EXCEPT !.Child = Append(kept, offsetsBox(offsets, use64bit))]
            IN  shiftMoovOffsetsFrom(
                    [moov EXCEPT !.Child[i].Child[at[1]].Child[at[2]].Child[at[3]] = stbl2],
                    i + 1, oo, no, use64bit))

shiftMoovOffsets(moov, oo, no, use64bit) ==
    IF Len(oo) = 0 THEN [moov |-> moov, panic |-> ""]
    ELSE shiftMoovOffsetsFrom(moov, 1, oo, no, use64bit)

\* b.packedSize()
RECURSIVE packedSize(_)
packedSize(b) ==
    IF b.Child = <<>> THEN boxSize(Len(b.Raw))
    ELSE LET RECURSIVE sum(_)
             sum(i) == IF i > Len(b.Child) THEN 0
                       ELSE packedSize(b.Child[i]) + sum(i + 1)
         IN  boxSize(sum(1))

\* packBox(b, p, off): [p, off, panic]
RECURSIVE packBox(_, _, _)
packBox(b, p0, off0) ==
    Let(p0, LAMBDA p :
    IF off0 + 8 > Len(p)
    THEN [p |-> p, off |-> off0, panic |-> "slice bounds out of range"]
    ELSE
    LET p1 == CopyAt(p, off0 + 4, Cc4(b.Type))
        size == packedSize(b)
        ext == ~AtLeast2p32(size)
    IN  IF ext /\ off0 + 16 > Len(p)
        THEN [p |-> CopyAt(p1, off0, U32(1)), off |-> off0,
              panic |-> "index out of range"]
        ELSE
        LET p2 == IF ext
                  THEN CopyAt(CopyAt(p1, off0, U32(1)), off0 + 8, U64(size))
                  ELSE CopyAt(p1, off0, U32(size))
            off == IF ext THEN off0 + 16 ELSE off0 + 8
            RECURSIVE children(_, _)
            children(i, r) ==
                IF i > Len(b.Child) \/ r.panic # "" THEN r
                ELSE children(i + 1, packBox(b.Child[i], r.p, r.off))
        IN  IF b.Child = <<>>
            THEN [p |-> CopyAt(p2, off, b.Raw), off |-> off + Len(b.Raw),
                  panic |-> ""]
            ELSE children(1, [p |-> p2, off |-> off, panic |-> ""]))

\* b.packChildren(): [b, panic]
packChildren(b) ==
    LET size == packedSize(b)
        b1 == [b EXCEPT !.Size = size]
    IN  Let(packBox(b1, Zeros(size), 0), LAMBDA r :
            IF r.panic # "" THEN [b |-> b1, panic |-> r.panic]
            ELSE IF r.off # size THEN [b |-> b1, panic |-> "consistency"]
            ELSE [b |-> [b1 EXCEPT !.Raw = r.p], panic |-> ""])

\* Optimize, lines 17-31 and 43-51
mdatOffsets(child) ==
    LET md == SelectSeq(child, LAMBDA b : b.Type = "mdat") IN
    [i \in 1..Len(md) |-> md[i].Offset]

RECURSIVE sumSizes(_, _, _)
sumSizes(child, a, b) ==
    IF a > b THEN 0 ELSE child[a].Size + sumSizes(child, a + 1, b)

lenExceptMoov(child) ==
    LET xs == SelectSeq(child, LAMBDA b : b.Type # "moov") IN
    sumSizes(xs, 1, Len(xs))

newMdatOffsets(child) ==
    LET at == {i \in 1..Len(child) : child[i].Type = "mdat"}
        nth(k) == CHOOSE i \in at : Cardinality({m \in at : m < i}) = k - 1
    IN  [k \in 1..Cardinality(at) |-> sumSizes(child, 1, nth(k) - 1)]

\* f.Optimize(): [Child, panic]
Optimize(child0) ==
    Let(SortStableFrom(child0, 0), LAMBDA child :
    LET mi == FindIdx(child, "moov") IN
    IF mi = 0 THEN [Child |-> child, panic |-> ""]
    ELSE
    LET oo == mdatOffsets(child)
        lenxmoov == lenExceptMoov(child)
        am == analyseMoov(child[mi])
        s32 == lenxmoov + am.baselen + 4 * am.noffsets
        use64bit == AtLeast2p32(s32)
        ms == IF use64bit THEN lenxmoov + am.baselen + 8 * am.noffsets ELSE s32
        child1 == [child EXCEPT ![mi].Size = ms]
        no == newMdatOffsets(child1)
    IN  Let(shiftMoovOffsets(child1[mi], oo, no, use64bit), LAMBDA sh :
            IF sh.panic # ""
            THEN [Child |-> [child1 EXCEPT ![mi] = sh.moov], panic |-> sh.panic]
            ELSE Let(packChildren(sh.moov), LAMBDA pk :
                     [Child |-> [child1 EXCEPT ![mi] = pk.b],
                      panic |-> IF pk.panic # "" THEN pk.panic
                                ELSE IF pk.b.Size # ms THEN "consistency"
                                ELSE ""])))

----------------------------------------------------------------------------
(* Optimize inputs: ftyp and up to MaxTop boxes, at most one of them moov  *)
(* with mvhd and up to MaxTraks trak boxes, laid out from offset 0.        *)

MaxTop == 3

MaxTraks == 2

\* An unpacked leaf box and an unpacked parent box (Box.unpackChildren).
Leaf(typ, raw) ==
    [Offset |-> 0, Size |-> 8 + Len(raw), Ext |-> FALSE, Type |-> typ,
     Raw |-> raw, Child |-> <<>>]

Parent(typ, children) ==
    [Offset |-> 0, Size |-> 8 + sumSizes(children, 1, Len(children)),
     Ext |-> FALSE, Type |-> typ, Raw |-> <<>>, Child |-> children]

TrakOf(tables) ==
    Parent("trak", <<Parent("mdia", <<Parent("minf", <<Parent("stbl", tables)>>)>>)>>)

\* Offset tables in the layout checkOffsetBlock and shiftMoovOffsets use.
StcoOf(offsets) ==
    Leaf("stco", U32(Len(offsets))
                     \o Flatten([i \in 1..Len(offsets) |-> U32(offsets[i])]))

Co64Of(offsets) ==
    Leaf("co64", <<0, 0, 0, 0>> \o U32(Len(offsets))
                     \o Flatten([i \in 1..Len(offsets) |-> U64(offsets[i])]))

Traks ==
    { TrakOf(<<StcoOf(<<8, 24>>)>>),
      TrakOf(<<Co64Of(<<40>>)>>),
      TrakOf(<<StcoOf(<<56>>), Co64Of(<<56>>)>>),
      TrakOf(<<Leaf("stco", U32(2) \o U32(24))>>),
      Leaf("trak", <<>>) }

RECURSIVE TrakSeqs(_)
TrakSeqs(n) ==
    IF n = 0 THEN {<<>>}
    ELSE LET shorter == TrakSeqs(n - 1) IN
         shorter \cup {Append(s, t) : s \in shorter, t \in Traks}

Moovs == {Parent("moov", <<Leaf("mvhd", <<0, 0, 0, 0>>)>> \o ts) : ts \in TrakSeqs(MaxTraks)}

PlainBoxes ==
    { ParsedBox("mdat", 32, <<>>), ParsedBox("mdat", 16, <<>>),
      ParsedBox("free", 8, <<>>) }

RECURSIVE OptSeqs(_)
OptSeqs(n) ==
    IF n = 0 THEN {<<>>}
    ELSE LET shorter == OptSeqs(n - 1) IN
         shorter \cup {Append(s, b) : s \in shorter, b \in PlainBoxes \cup Moovs}

OptimizeFiles ==
    {LaidOut(<<ParsedBox("ftyp", 16, Rep(8, 0))>> \o s, 0) :
         s \in {t \in OptSeqs(MaxTop) :
                   Cardinality({i \in 1..Len(t) : t[i].Type = "moov"}) <= 1}}

InitOptimize ==
    /\ f \in {[Child |-> c] : c \in OptimizeFiles}
    /\ calls = 0
    /\ prevChild = <<>>
    /\ lastData = <<>>
    /\ lastPath = "none"
    /\ panicked = ""
    /\ NoStream
    /\ ScanIdle
    /\ RewriteIdle
    /\ ExifIdle
    /\ LaterIdle

DoOptimize ==
    /\ panicked = ""
    /\ calls = 0
    /\ \E r \in {Optimize(f.Child)} :
          /\ f' = [f EXCEPT !.Child = r.Child]
          /\ panicked' = r.panic
    /\ lastPath' = "Optimize"
    /\ prevChild' = f.Child
    /\ calls' = calls + 1
    /\ UNCHANGED <<lastData, scanVars, rwVars, exifVars, laterVars>>

NextOptimize == DoOptimize

SpecOptimize == InitOptimize /\ [][NextOptimize]_vars

----------------------------------------------------------------------------
(* What Optimize is to achieve, read off the files before and after.       *)

\* The offsets of a well-formed table box, <<>> if it is none.
TableOffsets(b) ==
    IF b.Type = "stco" /\ Len(b.Raw) >= 4 /\ Len(b.Raw) = 4 + 4 * GetU32(b.Raw, 0)
    THEN [i \in 1..GetU32(b.Raw, 0) |-> GetU32(b.Raw, 4 * i)]
    ELSE IF b.Type = "co64" /\ Len(b.Raw) >= 8 /\ Len(b.Raw) = 8 + 8 * GetU32(b.Raw, 4)
    THEN [i \in 1..GetU32(b.Raw, 4) |-> GetU64(b.Raw, 8 * i)]
    ELSE <<>>

\* The offsets of a track: those of its stco, else of its co64.
TrakOffsets(c) ==
    IF c.Type # "trak" \/ FindStbl(c) = <<>> THEN <<>>
    ELSE LET stbl == StblOf(c, FindStbl(c))
             stco == FindBox(stbl, "stco")
             co64 == FindBox(stbl, "co64")
         IN  IF ~stco.nil THEN TableOffsets(stco.b)
             ELSE IF ~co64.nil THEN TableOffsets(co64.b)
             ELSE <<>>

MoovOf(child) == child[FindIdx(child, "moov")]

\* Where the boxes of child start when they are written one after the
\* other, moov with its packed size.
WrittenSize(b) == IF b.Type = "moov" THEN packedSize(b) ELSE b.Size

RECURSIVE StartOf(_, _)
StartOf(child, i) ==
    IF i <= 1 THEN 0 ELSE StartOf(child, i - 1) + WrittenSize(child[i - 1])

NewMdatStarts(child) ==
    LET at == {i \in 1..Len(child) : child[i].Type = "mdat"}
        nth(k) == CHOOSE i \in at : Cardinality({m \in at : m < i}) = k - 1
    IN  [k \in 1..Cardinality(at) |-> StartOf(child, nth(k))]

\* The value an old offset is to have after the mdat boxes moved.
Moved(off, oldStarts, newStarts) ==
    LET at == {k \in 1..Len(oldStarts) : oldStarts[k] <= off} IN
    IF at = {} THEN off
    ELSE LET k == CHOOSE m \in at : \A n \in at : oldStarts[n] <= oldStarts[m]
         IN  off - oldStarts[k] + newStarts[k]

OptimizedWithMoov ==
    lastPath = "Optimize" /\ FindIdx(prevChild, "moov") # 0

\* C9: after Optimize every chunk offset at or after an old mdat start is its
\* old value minus the old start of the last mdat at or before it plus that
\* mdat's start in the new layout; offsets before the first mdat are unchanged.
C9_OffsetsShifted ==
    OptimizedWithMoov =>
        LET old == MoovOf(prevChild)
            new == MoovOf(f.Child)
            oldStarts == mdatOffsets(prevChild)
            newStarts == NewMdatStarts(f.Child)
        IN  \A t \in 1..Len(old.Child) :
                LET offs == TrakOffsets(old.Child[t]) IN
                offs # <<>> =>
                    TrakOffsets(new.Child[t]) =
                        [i \in 1..Len(offs) |-> Moved(offs[i], oldStarts, newStarts)]

\* The stbl boxes of moov.
Stbls(moov) ==
    {StblOf(moov.Child[t], FindStbl(moov.Child[t])) :
         t \in {k \in 1..Len(moov.Child) :
                   moov.Child[k].Type = "trak" /\ FindStbl(moov.Child[k]) # <<>>}}

\* C10: after Optimize on a file with a moov and an mdat box no stbl holds
\* both an stco and a co64 box.
C10_OneOffsetTable ==
    (OptimizedWithMoov /\ FindIdx(prevChild, "mdat") # 0) =>
        \A stbl \in Stbls(MoovOf(f.Child)) :
            FindIdx(stbl.Child, "stco") = 0 \/ FindIdx(stbl.Child, "co64") = 0

\* The offsets a track is to hold after the mdat boxes moved.
NewTrakOffsets(t) ==
    LET offs == TrakOffsets(MoovOf(prevChild).Child[t])
        oldStarts == mdatOffsets(prevChild)
        newStarts == NewMdatStarts(f.Child)
    IN  [i \in 1..Len(offs) |-> Moved(offs[i], oldStarts, newStarts)]

\* C11: after Optimize on a file with a moov and an mdat box, a track with a
\* well-formed offset table has a co64 box and no stco box if its last chunk
\* offset in the new layout is 2^32 or more, and an stco box and no co64 box
\* otherwise.
C11_WidenWhenNeeded ==
    (OptimizedWithMoov /\ FindIdx(prevChild, "mdat") # 0) =>
        \A t \in 1..Len(MoovOf(prevChild).Child) :
            TrakOffsets(MoovOf(prevChild).Child[t]) # <<>> =>
                LET offs == NewTrakOffsets(t)
                    c == MoovOf(f.Child).Child[t]
                    stbl == StblOf(c, FindStbl(c))
                    has(typ) == FindIdx(stbl.Child, typ) # 0
                IN  IF AtLeast2p32(offs[Len(offs)])
                    THEN has("co64") /\ ~has("stco")
                    ELSE has("stco") /\ ~has("co64")

\* C22: Optimize returns without a panic: packChildren stays inside its
\* buffer and neither consistency check fires.
C22_OptimizeNoPanic ==
    lastPath = "Optimize" => panicked = ""


----------------------------------------------------------------------------
(* Part 5: the EXIF codec (src/exif/coder.go)                               *)
(*                                                                         *)
(* An Entry is [Tag, Type, Count, Value], a Dir a sequence of entries (nil *)
(* and empty are one value: the code tests Dirs by len, and decodeDir      *)
(* returns nil for a directory without entries).  ByteOrder is "MM", "II"  *)
(* or "none" for the nil interface.                                        *)

ifd0exifSub == 34665
ifd0gpsSub == 34853
ifd0interopSub == 40965
ifd1thumbOffset == 513
ifd1thumbLength == 514

\* The element types the inputs use, and the bytes of one element of every
\* type, in the numbering of TIFF (BYTE, ASCII, SHORT, LONG, RATIONAL, SBYTE,
\* UNDEFINED, SSHORT, SLONG, SRATIONAL, FLOAT, DOUBLE).
TypeByte == 1
TypeAscii == 2
TypeShort == 3
TypeLong == 4
TypeUndef == 7
elemSize == <<1, 1, 2, 4, 8, 1, 1, 2, 4, 8, 4, 8>>

\* int(bo.Uint32(..)) of 2^31 and more: every such value is beyond the
\* length of any blob of the model, and takes the same branch of every
\* comparison the code makes with it.
Huge == 65536 * 32767 + 65535

Entry(tag, typ, count, value) ==
    [Tag |-> tag, Type |-> typ, Count |-> count, Value |-> value]

Reverse(s) == [i \in 1..Len(s) |-> s[Len(s) + 1 - i]]

\* bo.PutUint16 / bo.PutUint32: the bytes written
PutUint16(bo, v) ==
    IF bo = "MM" THEN <<(v \div 256) % 256, v % 256>>
    ELSE <<v % 256, (v \div 256) % 256>>

PutUint32(bo, v) == IF bo = "MM" THEN U32(v) ELSE Reverse(U32(v))

\* bo.Uint16(p[off:]) / int(bo.Uint32(p[off:])); the callers check the range.
Uint16(bo, p, off) ==
    IF bo = "MM" THEN p[off + 1] * 256 + p[off + 2]
    ELSE p[off + 2] * 256 + p[off + 1]

Uint32(bo, p, off) ==
    LET b == IF bo = "MM" THEN Slice(p, off, off + 4)
             ELSE Reverse(Slice(p, off, off + 4))
    IN  IF b[1] >= 128 THEN Huge ELSE GetU32(b, 0)

\* typeSize(typ, count): the bytes of count elements of type typ, 0 for an
\* unknown type or no element.
typeSize(typ, count) ==
    IF typ \notin 1..Len(elemSize) THEN 0
    ELSE IF count > 65535 THEN Huge
    ELSE elemSize[typ] * count

\* d.Sort(): sort.Sort is an insertion sort for directories this short, so
\* entries of equal tag keep their order.
RECURSIVE SortFrom(_, _, _)
SortFrom(d, i, acc) ==
    IF i > Len(d) THEN acc
    ELSE LET k == Cardinality({n \in 1..Len(acc) : acc[n].Tag <= d[i].Tag})
         IN  SortFrom(d, i + 1,
                      SubSeq(acc, 1, k) \o <<d[i]>> \o SubSeq(acc, k + 1, Len(acc)))

Sort(d) == Let(d, LAMBDA v : SortFrom(v, 1, <<>>))

\* sort.Search(len(d), func(i) bool { return t <= d[i].Tag })
RECURSIVE SearchTag(_, _, _, _)
SearchTag(d, t, lo, hi) ==
    IF lo >= hi THEN lo
    ELSE LET h == (lo + hi) \div 2 IN
         IF ~(t <= d[h + 1].Tag) THEN SearchTag(d, t, h + 1, hi)
         ELSE SearchTag(d, t, lo, h)

\* d.Index(t): zero-based, -1 if t is not in d
Index(d, t) ==
    LET i == SearchTag(d, t, 0, Len(d)) IN
    IF i = Len(d) \/ d[i + 1].Tag # t THEN -1 ELSE i

\* fieldOfs(bo, d.Tag(t)): the value of a single long
fieldOfs(bo, d, t) ==
    LET i == Index(d, t) IN
    IF i = -1 \/ d[i + 1].Type # TypeLong \/ d[i + 1].Count # 1
    THEN [v |-> 0, ok |-> FALSE]
    ELSE [v |-> Uint32(bo, d[i + 1].Value, 0), ok |-> TRUE]

\* putFieldOfs(bo, d.Tag(t), v): writes v into the value of a single long;
\* the entry is changed in place.
putFieldOfs(bo, d, t, v) ==
    LET i == Index(d, t) IN
    IF i = -1 \/ d[i + 1].Type # TypeLong \/ d[i + 1].Count # 1
    THEN [d |-> d, ok |-> FALSE]
    ELSE [d |-> [d EXCEPT ![i + 1].Value = PutUint32(bo, v)], ok |-> TRUE]

getOffsetLen(bo, d, ofst, lent) ==
    LET o == fieldOfs(bo, d, ofst) IN
    IF ~o.ok THEN [offset |-> o.v, length |-> 0, ok |-> FALSE]
    ELSE LET l == fieldOfs(bo, d, lent) IN
         [offset |-> o.v, length |-> l.v, ok |-> l.ok]

putOffsetLen(bo, d, ofst, lent, offset, length) ==
    Let(putFieldOfs(bo, d, ofst, offset), LAMBDA o :
        IF ~o.ok THEN o ELSE putFieldOfs(bo, o.d, lent, length))

corruptDir == [dir |-> <<>>, offset |-> 0, err |-> "ErrCorruptDir"]

\* decodeDir, the loop over the entries (lines 295-336); n entries are left
RECURSIVE decodeEntries(_, _, _, _, _)
decodeEntries(bo, p, offset, n, tags) ==
    IF n = 0 THEN [dir |-> tags, offset |-> offset, err |-> "nil"]
    ELSE IF Len(p) < offset + 12
    THEN [dir |-> <<>>, offset |-> 0, err |-> "ErrCorruptTag"]
    ELSE
    Let(<<Uint16(bo, p, offset), Uint16(bo, p, offset + 2),
          Uint32(bo, p, offset + 4), Uint32(bo, p, offset + 8)>>, LAMBDA h :
    Let(typeSize(h[2], h[3]), LAMBDA nbytes :
        IF nbytes = 0 THEN corruptDir
        ELSE IF nbytes > 4
        THEN IF h[4] > Len(p) \/ nbytes > Len(p) \/ Len(p) < h[4] + nbytes
             THEN corruptDir
             ELSE Let(Append(tags, Entry(h[1], h[2], h[3],
                                         Slice(p, h[4], h[4] + nbytes))),
                      LAMBDA ts : decodeEntries(bo, p, offset + 12, n - 1, ts))
        ELSE Let(Append(tags, Entry(h[1], h[2], h[3],
                                    Slice(p, offset + 8, offset + 8 + nbytes))),
                 LAMBDA ts : decodeEntries(bo, p, offset + 12, n - 1, ts))))

\* decodeDir(bo, p, offset): [dir, offset, err]
decodeDir(bo, p, offset) ==
    IF Len(p) < offset + 2 THEN corruptDir
    ELSE Let(decodeEntries(bo, p, offset + 2, Uint16(bo, p, offset), <<>>),
             LAMBDA r : IF r.err # "nil" THEN r
                        ELSE [r EXCEPT !.dir = Sort(r.dir)])

NilExif ==
    [ByteOrder |-> "none", IFD0 |-> <<>>, IFD1 |-> <<>>, Exif |-> <<>>,
     GPS |-> <<>>, Interop |-> <<>>, Thumb |-> <<>>]

\* The chain of IFDs DecodeBytes follows before it gives up: a chain that
\* comes back to itself keeps the loop of lines 61-81 running.
MaxChain == 4

\* DecodeBytes, lines 61-81: [d, err]
RECURSIVE readDirs(_, _, _, _)
readDirs(bo, p, offset, d) ==
    IF Len(p) < offset + 4 THEN [d |-> <<>>, err |-> "ErrCorruptDir"]
    ELSE Let(Uint32(bo, p, offset), LAMBDA ptr :
        IF ptr = 0 THEN [d |-> d, err |-> "nil"]
        ELSE IF Len(p) < ptr THEN [d |-> <<>>, err |-> "ErrCorruptDir"]
        ELSE IF Len(d) >= MaxChain THEN [d |-> <<>>, err |-> "no return"]
        ELSE Let(decodeDir(bo, p, ptr), LAMBDA r :
                 IF r.err # "nil" THEN [d |-> <<>>, err |-> r.err]
                 ELSE readDirs(bo, p, r.offset, Append(d, r.dir))))

subTags == <<ifd0exifSub, ifd0gpsSub, ifd0interopSub>>

subNames == <<"Exif", "GPS", "Interop">>

subDirs(x) == <<x.Exif, x.GPS, x.Interop>>

\* DecodeBytes, lines 92-122: [x, err]
RECURSIVE loadSubs(_, _, _, _)
loadSubs(bo, p, i, x) ==
    IF i > Len(x.IFD0) THEN [x |-> x, err |-> "nil"]
    ELSE LET t == x.IFD0[i]
             js == {n \in 1..3 : subTags[n] = t.Tag}
         IN  IF js = {} THEN loadSubs(bo, p, i + 1, x)
             ELSE LET n == CHOOSE m \in js : TRUE IN
                  IF x[subNames[n]] # <<>>
                  THEN [x |-> NilExif, err |-> "ErrDuplicateSub"]
                  ELSE IF t.Type # TypeLong
                  THEN [x |-> NilExif, err |-> "ErrCorruptTag"]
                  ELSE IF Len(p) < Uint32(bo, t.Value, 0)
                  THEN [x |-> NilExif, err |-> "ErrCorruptTag"]
                  ELSE Let(decodeDir(bo, p, Uint32(bo, t.Value, 0)), LAMBDA r :
                           IF r.err # "nil" THEN [x |-> NilExif, err |-> r.err]
                           ELSE Let([x EXCEPT ![subNames[n]] = r.dir],
                                    LAMBDA x1 : loadSubs(bo, p, i + 1, x1)))

\* DecodeBytes, lines 124-129
withThumb(bo, p, x) ==
    LET t == getOffsetLen(bo, x.IFD1, ifd1thumbOffset, ifd1thumbLength) IN
    IF t.ok /\ t.offset <= Len(p) /\ t.length <= Len(p)
            /\ t.offset + t.length <= Len(p)
    THEN [x EXCEPT !.Thumb = Slice(p, t.offset, t.offset + t.length)]
    ELSE x

\* DecodeBytes(p): [x, err]
DecodeBytes(p0) ==
    Let(p0, LAMBDA p :
    IF Len(p) < 4 THEN [x |-> NilExif, err |-> "ErrCorruptHeader"]
    ELSE
    LET bo == IF p[1] = 77 /\ p[2] = 77 THEN "MM"
              ELSE IF p[1] = 73 /\ p[2] = 73 THEN "II"
              ELSE "none"
    IN  IF bo = "none" THEN [x |-> NilExif, err |-> "ErrCorruptHeader"]
        ELSE IF Uint16(bo, p, 2) # 42
        THEN [x |-> NilExif, err |-> "ErrCorruptHeader"]
        ELSE Let(readDirs(bo, p, 4, <<>>), LAMBDA c :
            IF c.err # "nil" THEN [x |-> NilExif, err |-> c.err]
            ELSE Let([NilExif EXCEPT
                         !.ByteOrder = bo,
                         !.IFD0 = IF Len(c.d) > 0 THEN c.d[1] ELSE <<>>,
                         !.IFD1 = IF Len(c.d) > 1 THEN c.d[2] ELSE <<>>],
                     LAMBDA x1 :
                Let(loadSubs(bo, p, 1, x1), LAMBDA s :
                    IF s.err # "nil" THEN s
                    ELSE [x |-> withThumb(bo, p, s.x), err |-> "nil"]))))

\* d.encodedLen(subIfd)
RECURSIVE outOfLine(_, _)
outOfLine(d, i) ==
    IF i > Len(d) THEN 0
    ELSE (IF Len(d[i].Value) > 4 THEN Len(d[i].Value) ELSE 0) + outOfLine(d, i + 1)

encodedLen(d, subIfd) ==
    2 + Len(d) * 12 + (IF subIfd THEN 0 ELSE 4) + outOfLine(d, 1)

\* d.encode, the loop over the entries (lines 375-387): [p, dataoffset]
RECURSIVE encodeEntries(_, _, _, _, _, _)
encodeEntries(bo, d, i, p, offset, dataoffset) ==
    IF i > Len(d) THEN [p |-> p, dataoffset |-> dataoffset]
    ELSE LET t == d[i]
             head == PutUint16(bo, t.Tag) \o PutUint16(bo, t.Type)
                         \o PutUint32(bo, t.Count)
         IN  IF Len(t.Value) <= 4
             THEN Let(CopyAt(CopyAt(p, offset, head), offset + 8, t.Value),
                      LAMBDA p1 :
                          encodeEntries(bo, d, i + 1, p1, offset + 12, dataoffset))
             ELSE Let(CopyAt(CopyAt(CopyAt(p, offset, head), offset + 8,
                                    PutUint32(bo, dataoffset)),
                             dataoffset, t.Value),
                      LAMBDA p1 :
                          encodeEntries(bo, d, i + 1, p1, offset + 12,
                                        dataoffset + Len(t.Value)))

\* d.encode(bo, p, offset, subIfd, hasNext): [p, dataoffset]
encode(bo, d, p, offset, subIfd, hasNext) ==
    Let(encodeEntries(bo, d, 1, CopyAt(p, offset, PutUint16(bo, Len(d))),
                      offset + 2,
                      offset + 2 + Len(d) * 12 + (IF subIfd THEN 0 ELSE 4)),
        LAMBDA r :
            IF ~subIfd /\ hasNext
            THEN [r EXCEPT !.p = CopyAt(r.p, offset + 2 + Len(d) * 12,
                                        PutUint32(bo, r.dataoffset))]
            ELSE r)

\* EncodeBytes, lines 151-167: the entries of IFD0 that are kept, each with
\* the place in x.IFD0 it shares its value bytes with, and the idx of the
\* three sub-IFDs (zero-based, -1 for none).
RECURSIVE filterIFD0(_, _, _)
filterIFD0(x, i, acc) ==
    IF i > Len(x.IFD0) THEN acc
    ELSE LET t == x.IFD0[i]
             js == {n \in 1..3 : subTags[n] = t.Tag}
         IN  IF \E n \in js : subDirs(x)[n] = <<>>
             THEN filterIFD0(x, i + 1, acc)
             ELSE Let([ifd0 |-> Append(acc.ifd0, [e |-> t, from |-> i]),
                       idx |-> [n \in 1..3 |->
                                   IF n \in js THEN i - 1 ELSE acc.idx[n]]],
                      LAMBDA a : filterIFD0(x, i + 1, a))

\* EncodeBytes, lines 169-181
RECURSIVE addMissing(_, _, _)
addMissing(x, n, acc) ==
    IF n > 3 THEN acc
    ELSE IF subDirs(x)[n] # <<>> /\ acc.idx[n] = -1
    THEN Let([ifd0 |-> Append(acc.ifd0,
                              [e |-> Entry(subTags[n], TypeLong, 1, Zeros(4)),
                               from |-> 0]),
              idx |-> [acc.idx EXCEPT ![n] = Len(acc.ifd0)]],
             LAMBDA a : addMissing(x, n + 1, a))
    ELSE addMissing(x, n + 1, acc)

\* EncodeBytes, lines 185-199: [ifd1, thumb, xIFD1]; xIFD1 is x.IFD1 after
\* the writes into its entries.
prepareThumb(x) ==
    IF Len(x.Thumb) = 0
    THEN [ifd1 |-> <<>>, thumb |-> <<>>, xIFD1 |-> x.IFD1]
    ELSE Let(putOffsetLen(x.ByteOrder, x.IFD1, ifd1thumbOffset,
                          ifd1thumbLength, 0, 0), LAMBDA r :
             IF ~r.ok THEN [ifd1 |-> <<>>, thumb |-> <<>>, xIFD1 |-> r.d]
             ELSE [ifd1 |-> r.d, thumb |-> x.Thumb, xIFD1 |-> r.d])

entriesOf(ifd0) == [i \in 1..Len(ifd0) |-> ifd0[i].e]

\* EncodeBytes, lines 225-232: [ifd0, suboffset, panic]
RECURSIVE setSubOffsets(_, _, _, _, _)
setSubOffsets(x, ifd0, idx, n, suboffset) ==
    IF n > 3 THEN [ifd0 |-> ifd0, suboffset |-> suboffset, panic |-> ""]
    ELSE IF idx[n] = -1 THEN setSubOffsets(x, ifd0, idx, n + 1, suboffset)
    ELSE IF idx[n] >= Len(ifd0) \/ Len(ifd0[idx[n] + 1].e.Value) < 4
    THEN [ifd0 |-> ifd0, suboffset |-> suboffset,
          panic |-> "index out of range"]
    ELSE Let(<<[ifd0 EXCEPT ![idx[n] + 1].e.Value =
                    CopyAt(@, 0, PutUint32(x.ByteOrder, suboffset))],
               suboffset + encodedLen(subDirs(x)[n], TRUE)>>,
             LAMBDA a : setSubOffsets(x, a[1], idx, n + 1, a[2]))

\* x after EncodeBytes: the values of x.IFD0 that ifd0 shares, and x.IFD1
xAfter(x, ifd0, xIFD1) ==
    [x EXCEPT
        !.IFD0 = [i \in 1..Len(x.IFD0) |->
                     IF \E k \in 1..Len(ifd0) : ifd0[k].from = i
                     THEN ifd0[CHOOSE k \in 1..Len(ifd0) : ifd0[k].from = i].e
                     ELSE x.IFD0[i]],
        !.IFD1 = xIFD1]

\* EncodeBytes, lines 261-271: the sub-IFDs are written one after the other
RECURSIVE encodeSubs(_, _, _, _, _)
encodeSubs(x, idx, n, p, offset) ==
    IF n > 3 THEN [p |-> p, dataoffset |-> offset]
    ELSE IF idx[n] = -1 THEN encodeSubs(x, idx, n + 1, p, offset)
    ELSE Let(encode(x.ByteOrder, subDirs(x)[n], p, offset, TRUE, FALSE),
             LAMBDA r : encodeSubs(x, idx, n + 1, r.p, r.dataoffset))

\* x.EncodeBytes(): [p, err, panic, x]
EncodeBytes(x0) ==
    Let(x0, LAMBDA x :
    Let(addMissing(x, 1, filterIFD0(x, 1, [ifd0 |-> <<>>,
                                           idx |-> <<-1, -1, -1>>])), LAMBDA a :
    Let(prepareThumb(x), LAMBDA th :
    IF x.ByteOrder = "none"
    THEN [p |-> <<>>, err |-> "ErrCorruptHeader", panic |-> "",
          x |-> xAfter(x, a.ifd0, th.xIFD1)]
    ELSE
    Let(setSubOffsets(x, a.ifd0, a.idx, 1,
                      8 + encodedLen(entriesOf(a.ifd0), FALSE)
                        + (IF th.ifd1 # <<>> THEN encodedLen(th.ifd1, FALSE)
                           ELSE 0)), LAMBDA so :
    IF so.panic # ""
    THEN [p |-> <<>>, err |-> "", panic |-> so.panic,
          x |-> xAfter(x, so.ifd0, th.xIFD1)]
    ELSE
    Let(IF th.thumb # <<>>
        THEN putOffsetLen(x.ByteOrder, th.ifd1, ifd1thumbOffset,
                          ifd1thumbLength, so.suboffset, Len(th.thumb)).d
        ELSE th.ifd1, LAMBDA ifd1 :
    LET bo == x.ByteOrder
        size == 8 + so.suboffset + Len(th.thumb)
        hdr == (IF bo = "MM" THEN <<77, 77>> ELSE <<73, 73>>)
                   \o PutUint16(bo, 42) \o PutUint32(bo, 8)
    IN  Let(encode(bo, entriesOf(so.ifd0), CopyAt(Zeros(size), 0, hdr), 8,
                   FALSE, ifd1 # <<>>), LAMBDA e0 :
        Let(IF ifd1 # <<>>
            THEN encode(bo, ifd1, e0.p, e0.dataoffset, FALSE, FALSE)
            ELSE e0, LAMBDA e1 :
        Let(encodeSubs(x, a.idx, 1, e1.p, e1.dataoffset), LAMBDA es :
            [p |-> CopyAt(es.p, es.dataoffset, th.thumb),
             err |-> IF size > 65533 THEN "ErrTooLong" ELSE "nil",
             panic |-> "",
             x |-> xAfter(x, so.ifd0, IF th.thumb # <<>> THEN ifd1
                                      ELSE th.xIFD1)]))))))))

----------------------------------------------------------------------------
(* EXIF inputs: blobs laid out from small directories, and Exif values as  *)
(* the package's callers build them (exif.New and the exported fields).    *)

eMake == Entry(271, TypeAscii, 6, <<67, 97, 110, 111, 110, 0>>)
eOrientation == Entry(274, TypeShort, 1, <<0, 1>>)
eXPTitle == Entry(40091, TypeByte, 4, <<1, 2, 3, 4>>)
eCompression == Entry(259, TypeShort, 1, <<0, 6>>)

BaseIFD0s ==
    { <<>>, <<eOrientation>>, <<eMake, eOrientation>>, <<eXPTitle>>,
      <<eOrientation, eXPTitle>> }

FullSubs ==
    << <<Entry(36864, TypeUndef, 4, <<48, 50, 50, 48>>),
         Entry(36867, TypeAscii, 5, <<50, 48, 50, 48, 0>>)>>,
       <<Entry(1, TypeAscii, 2, <<78, 0>>)>>,
       <<Entry(1, TypeAscii, 4, <<82, 57, 56, 0>>)>> >>

ThumbBytes == <<255, 216>>

IFD1Kinds == {"none", "plain", "thumb"}

pointerEntry(bo, n, v) == Entry(subTags[n], TypeLong, 1, PutUint32(bo, v))

\* A description of an Exif: the byte order, the other entries of IFD0, for
\* every sub-IFD whether IFD0 points to it and whether it has entries, the
\* kind of IFD1, and whether IFD0 is written in tag order.
ExifShapes ==
    [bo : {"MM", "II"}, base : BaseIFD0s, ptr : [1..3 -> BOOLEAN],
     full : [1..3 -> BOOLEAN], ifd1 : IFD1Kinds, sorted : BOOLEAN]

subOf(s, n) == IF s.full[n] THEN FullSubs[n] ELSE <<>>

ifd1Of(s, ofs) ==
    IF s.ifd1 = "none" THEN <<>>
    ELSE IF s.ifd1 = "plain" THEN <<eCompression>>
    ELSE <<eCompression,
           Entry(ifd1thumbOffset, TypeLong, 1, PutUint32(s.bo, ofs)),
           Entry(ifd1thumbLength, TypeLong, 1,
                 PutUint32(s.bo, Len(ThumbBytes)))>>

\* IFD0 of shape s, the pointers with the values at(n)
ifd0Of(s, at) ==
    LET ptrs == SelectSeq([n \in 1..3 |-> n], LAMBDA n : s.ptr[n])
        d == Sort(s.base \o [k \in 1..Len(ptrs) |->
                                 pointerEntry(s.bo, ptrs[k], at[ptrs[k]])])
    IN  IF s.sorted THEN d ELSE Reverse(d)

\* The blob of shape s: header, IFD0, IFD1, the sub-IFDs IFD0 points to, the
\* thumbnail.
BlobOfShape(s) ==
    LET len0 == encodedLen(ifd0Of(s, <<0, 0, 0>>), FALSE)
        len1 == IF s.ifd1 = "none" THEN 0 ELSE encodedLen(ifd1Of(s, 0), FALSE)
        sublen(n) == IF s.ptr[n] THEN encodedLen(subOf(s, n), TRUE) ELSE 0
        at == <<8 + len0 + len1, 8 + len0 + len1 + sublen(1),
                8 + len0 + len1 + sublen(1) + sublen(2)>>
        thumbAt == at[3] + sublen(3)
        size == thumbAt + (IF s.ifd1 = "thumb" THEN Len(ThumbBytes) ELSE 0)
        hdr == (IF s.bo = "MM" THEN <<77, 77>> ELSE <<73, 73>>)
                   \o PutUint16(s.bo, 42) \o PutUint32(s.bo, 8)
        p0 == encode(s.bo, ifd0Of(s, at), CopyAt(Zeros(size), 0, hdr), 8,
                     FALSE, s.ifd1 # "none").p
        p1 == IF s.ifd1 = "none" THEN p0
              ELSE encode(s.bo, ifd1Of(s, thumbAt), p0, 8 + len0, FALSE, FALSE).p
        RECURSIVE subs(_, _)
        subs(n, p) ==
            IF n > 3 THEN p
            ELSE IF ~s.ptr[n] THEN subs(n + 1, p)
            ELSE subs(n + 1, encode(s.bo, subOf(s, n), p, at[n], TRUE, FALSE).p)
    IN  IF s.ifd1 = "thumb" THEN CopyAt(subs(1, p1), thumbAt, ThumbBytes)
        ELSE subs(1, p1)

\* The Exif value of shape s, as built through the exported fields.
ExifOfShape(s) ==
    [ByteOrder |-> s.bo, IFD0 |-> ifd0Of(s, <<0, 0, 0>>), IFD1 |-> ifd1Of(s, 0),
     Exif |-> subOf(s, 1), GPS |-> subOf(s, 2), Interop |-> subOf(s, 3),
     Thumb |-> IF s.ifd1 = "thumb" THEN ThumbBytes ELSE <<>>]

\* In a blob a sub-IFD is reached through its pointer only.
BlobShapes == {s \in ExifShapes : \A n \in 1..3 : s.full[n] => s.ptr[n]}

BuiltShapes == {s \in ExifShapes : s.sorted}

SampleShape ==
    [bo |-> "MM", base |-> <<eMake, eOrientation>>,
     ptr |-> <<TRUE, TRUE, FALSE>>, full |-> <<TRUE, TRUE, FALSE>>,
     ifd1 |-> "thumb", sorted |-> TRUE]

\* Blobs DecodeBytes refuses: the sample cut short, a wrong byte order mark,
\* a wrong magic number, and IFD0 with two pointers to the Exif sub-IFD.
BrokenBlobs ==
    LET b == BlobOfShape(SampleShape)
        twice == LET d == <<pointerEntry("MM", 1, 38), pointerEntry("MM", 1, 38)>>
                 IN  encode("MM", FullSubs[2],
                            encode("MM", d,
                                   CopyAt(Zeros(52), 0,
                                          <<77, 77, 0, 42, 0, 0, 0, 8>>),
                                   8, FALSE, FALSE).p,
                            38, TRUE, FALSE).p
    IN  {SubSeq(b, 1, n) : n \in {0, 2, 6, 9, 12, 30, 44, 60, Len(b) - 1}}
            \cup {CopyAt(b, 0, <<88, 88>>), CopyAt(b, 2, <<0, 43>>), twice}

ExifBlobs == {BlobOfShape(s) : s \in BlobShapes} \cup BrokenBlobs

ExifValues ==
    {ExifOfShape(s) : s \in BuiltShapes}
        \cup {[ExifOfShape(s) EXCEPT !.ByteOrder = "none"] :
                 s \in {t \in BuiltShapes : t.ifd1 # "thumb" /\ t.base = <<>>}}

InitExif ==
    /\ \/ /\ blobB \in ExifBlobs
          /\ exifX = NilExif
          /\ exifStage = "blob"
       \/ /\ blobB = <<>>
          /\ exifX \in ExifValues
          /\ exifStage = "built"
    /\ encP = <<>>
    /\ exifX0 = NilExif
    /\ exifX2 = NilExif
    /\ exifErr = ""
    /\ NoStream
    /\ ScanIdle
    /\ RewriteIdle
    /\ Mp4Idle
    /\ LaterIdle

\* exifX, err := DecodeBytes(B), and exifX2, err := DecodeBytes(enc)
DoDecodeBytes ==
    /\ exifStage \in {"blob", "encoded"}
    /\ \E r \in {DecodeBytes(IF exifStage = "blob" THEN blobB ELSE encP)} :
          /\ exifErr' = r.err
          /\ IF exifStage = "blob"
             THEN /\ exifX' = r.x
                  /\ exifX2' = exifX2
                  /\ exifStage' = IF r.err = "nil" THEN "decoded" ELSE "rejected"
             ELSE /\ exifX2' = r.x
                  /\ exifX' = exifX
                  /\ exifStage' = IF r.err = "nil" THEN "redecoded"
                               ELSE "redecodeFailed"
    /\ UNCHANGED <<blobB, encP, exifX0, scanVars, rwVars, mp4Vars, laterVars>>

\* enc, err := exifX.EncodeBytes()
DoEncodeBytes ==
    /\ exifStage \in {"decoded", "built"}
    /\ \E r \in {EncodeBytes(exifX)} :
          /\ encP' = r.p
          /\ exifX' = r.x
          /\ exifErr' = IF r.panic # "" THEN "panic: " \o r.panic ELSE r.err
          /\ exifStage' = IF r.panic = "" /\ r.err = "nil" THEN "encoded"
                       ELSE "encodeFailed"
    /\ exifX0' = exifX
    /\ UNCHANGED <<blobB, exifX2, scanVars, rwVars, mp4Vars, laterVars>>

NextExif == DoDecodeBytes \/ DoEncodeBytes

SpecExif == InitExif /\ [][NextExif]_vars

----------------------------------------------------------------------------
(* What the codec is to achieve *)

IsPointerTag(t) == \E n \in 1..3 : subTags[n] = t

\* Directories a and b hold the same entries; the values of the sub-IFD
\* pointers are left out of the comparison where ptrFree holds.
SameDir(a, b, ptrFree) ==
    /\ Len(a) = Len(b)
    /\ \A i \in 1..Len(a) :
          /\ a[i].Tag = b[i].Tag
          /\ a[i].Type = b[i].Type
          /\ a[i].Count = b[i].Count
          /\ (ptrFree /\ IsPointerTag(a[i].Tag)) \/ a[i].Value = b[i].Value

SameExif(a, b) ==
    /\ SameDir(a.IFD0, b.IFD0, TRUE)
    /\ SameDir(a.IFD1, b.IFD1, FALSE)
    /\ SameDir(a.Exif, b.Exif, FALSE)
    /\ SameDir(a.GPS, b.GPS, FALSE)
    /\ SameDir(a.Interop, b.Interop, FALSE)

Accepted == blobB # <<>> /\ exifStage \notin {"blob", "rejected"}

\* C5: for every blob B that DecodeBytes accepts as X, X.EncodeBytes()
\* returns bytes that DecodeBytes accepts, as an X' whose five directories
\* hold the entries of X, equal in tag, type, count and value, the values of
\* the three sub-IFD pointers of IFD0 excepted.
C5_DecodeEncodeDecode ==
    Accepted =>
        /\ exifStage \notin {"encodeFailed", "redecodeFailed"}
        /\ exifStage = "redecoded" => SameExif(exifX0, exifX2)

Encoded == exifStage \in {"encoded", "redecoded", "redecodeFailed"}

\* The entries of the IFD0 that EncodeBytes wrote.
WrittenIFD0 == decodeDir(exifX0.ByteOrder, encP, 8).dir

\* C6: EncodeBytes does not fail on any combination of empty and non-empty
\* sub-IFDs and of pointers present in IFD0; the IFD0 it writes has a
\* pointer entry for a sub-IFD exactly when that sub-IFD has entries, and
\* the value of the pointer is the offset where that sub-IFD is written.
C6_SubIfdPointers ==
    /\ exifStage = "encodeFailed" => exifErr \in {"ErrCorruptHeader", "ErrTooLong"}
    /\ Encoded =>
          \A n \in 1..3 :
              LET d == WrittenIFD0
                  at == {i \in 1..Len(d) : d[i].Tag = subTags[n]}
              IN  /\ Cardinality(at) = IF subDirs(exifX0)[n] # <<>> THEN 1 ELSE 0
                  /\ \A i \in at :
                        /\ d[i].Type = TypeLong
                        /\ d[i].Count = 1
                        /\ LET r == decodeDir(exifX0.ByteOrder, encP,
                                              Uint32(exifX0.ByteOrder, d[i].Value, 0))
                           IN  r.err = "nil" /\ r.dir = subDirs(exifX0)[n]

----------------------------------------------------------------------------
(* Part 6: the XMP metadata driver (src/xmp/xmp.go, src/xmp/driver.go)      *)
(*                                                                         *)
(* A document is [root, descs]: the name of its root element ("none" for   *)
(* no root) and the rdf:Description children of its rdf:RDF element, each  *)
(* [ns, Child] with the namespaces its xmlns attributes declare and its    *)
(* child nodes [id, Name, Value].  id stands for the address of the node;  *)
(* a Description is known by its place in descs (none is ever removed).    *)
(* Meta is [Doc, rdf, attr, descr]: rdf is whether m.rdf is set, attr maps *)
(* names to nodes and descr namespaces to places in Doc.descs.             *)

xmpns == "http://ns.adobe.com/xap/1.0/"
exifns == "http://ns.adobe.com/exif/1.0/"
tiffns == "http://ns.adobe.com/tiff/1.0/"

xmlName(space, local) == [Space |-> space, Local |-> local]

EmptyMap == [k \in {} |-> 0]

NoDoc == [root |-> "none", descs |-> <<>>]

\* new(Meta)
NewMeta == [Doc |-> NoDoc, rdf |-> FALSE, attr |-> EmptyMap, descr |-> EmptyMap]

\* The absent value (nil interface).
Absent == [absent |-> TRUE]

\* strconv.Atoi and fmt.Sprint on the numbers and texts of the model.
IntTexts == {<<-1, "-1">>, <<0, "0">>, <<3, "3">>, <<5, "5">>, <<3, "+3">>}

Atoi(s) ==
    IF \E p \in IntTexts : p[2] = s
    THEN [v |-> (CHOOSE p \in IntTexts : p[2] = s)[1], ok |-> TRUE]
    ELSE [v |-> 0, ok |-> FALSE]

Sprint(i) == (CHOOSE p \in IntTexts : p[1] = i /\ p[2] # "+3")[2]

\* attrConv: the recognized attributes of the model, with the kind of
\* their valueConv
attrConv ==
    [Rating |-> [xmlName |-> xmlName(xmpns, "Rating"), conv |-> "int"],
     Orientation |-> [xmlName |-> xmlName(exifns, "Orientation"), conv |-> "int"],
     Make |-> [xmlName |-> xmlName(tiffns, "Make"), conv |-> "string"]]

\* nodeConv.fromXML: valueConv.parse of the node's text
fromXML(a, node) ==
    IF a.conv = "string" THEN [string |-> node.Value]
    ELSE IF Atoi(node.Value).ok THEN [int |-> Atoi(node.Value).v]
    ELSE Absent

\* nodeConv.toXML: [ok, Value]; a value is [int |-> i] or [string |-> s]
toXML(a, v) ==
    IF a.conv = "string"
    THEN IF "string" \in DOMAIN v THEN [ok |-> TRUE, Value |-> v.string]
         ELSE [ok |-> FALSE, Value |-> ""]
    ELSE IF "int" \in DOMAIN v THEN [ok |-> TRUE, Value |-> Sprint(v.int)]
         ELSE [ok |-> FALSE, Value |-> ""]

\* m.cacheNodes(n) for the Description at place i of doc
cacheNodes(m, doc, i) ==
    LET n == doc.descs[i]
        RECURSIVE kids(_, _)
        kids(k, attr) ==
            IF k > Len(n.Child) THEN attr
            ELSE kids(k + 1, (n.Child[k].Name :> n.Child[k]) @@ attr)
    IN  [m EXCEPT !.descr = [s \in n.ns |-> i] @@ m.descr,
                  !.attr = kids(1, m.attr)]

\* m.cacheRdfs(): [m, err]
cacheRdfs(m) ==
    IF m.Doc.root \notin {"xmpmeta", "RDF"}
    THEN [m |-> m, err |-> "ErrInvalidXMLFormat"]
    ELSE LET RECURSIVE each(_, _)
             each(i, mm) ==
                 IF i > Len(m.Doc.descs) THEN mm
                 ELSE each(i + 1, cacheNodes(mm, m.Doc, i))
         IN  [m |-> each(1, [m EXCEPT !.rdf = TRUE, !.attr = EmptyMap]),
              err |-> "nil"]

\* Decode(r), r holding the document doc: [m, err]
Xmp_Decode(doc) == cacheRdfs([NewMeta EXCEPT !.Doc = doc])

\* m.UnmarshalMetadata(p), p holding the document doc
UnmarshalMetadata(m, doc) == [m EXCEPT !.Doc = doc]

namespacePrefixMap == {xmpns, exifns, tiffns, "http://cipa.jp/exif/1.0/"}

\* m.getDescr(ns): [m, descr], descr the place of the Description
getDescr(m, ns) ==
    IF ns \in DOMAIN m.descr THEN [m |-> m, descr |-> m.descr[ns]]
    ELSE LET doc == IF m.rdf THEN m.Doc ELSE [root |-> "RDF", descs |-> <<>>]
             d == [ns |-> IF ns \in namespacePrefixMap THEN {ns} ELSE {},
                   Child |-> <<>>]
         IN  [m |-> [m EXCEPT !.rdf = TRUE,
                              !.Doc = [doc EXCEPT !.descs = Append(@, d)],
                              !.descr = (ns :> Len(doc.descs) + 1) @@ m.descr],
              descr |-> Len(doc.descs) + 1]

\* m.GetMetadataAttr(attr)
GetMetadataAttr(m, attr) ==
    IF attr \notin DOMAIN attrConv THEN Absent
    ELSE LET a == attrConv[attr] IN
         IF a.xmlName \notin DOMAIN m.attr THEN Absent
         ELSE fromXML(a, m.attr[a.xmlName])

\* m.SetMetadataAttr(attr, value), the new node getting address id: [m, err]
SetMetadataAttr(m, attr, value, id) ==
    IF attr \notin DOMAIN attrConv THEN [m |-> m, err |-> "unknown attr"]
    ELSE LET a == attrConv[attr] IN
         IF ~toXML(a, value).ok THEN [m |-> m, err |-> "can't store"]
         ELSE LET node == [id |-> id, Name |-> a.xmlName,
                           Value |-> toXML(a, value).Value]
                  g == getDescr(m, a.xmlName.Space)
                  kids == g.m.Doc.descs[g.descr].Child
                  at == {i \in 1..Len(kids) : kids[i].Name = a.xmlName}
              IN  IF at # {}
                  THEN [m |-> [g.m EXCEPT
                                  !.Doc.descs[g.descr].Child[
                                      CHOOSE i \in at : \A k \in at : i <= k] = node],
                        err |-> "nil"]
                  ELSE [m |-> [g.m EXCEPT
                                  !.Doc.descs[g.descr].Child = Append(@, node),
                                  !.attr = (a.xmlName :> node) @@ g.m.attr],
                        err |-> "nil"]

\* m.DeleteMetadataAttr(attr): [m, err]
DeleteMetadataAttr(m, attr) ==
    IF attr \notin DOMAIN attrConv THEN [m |-> m, err |-> "unknown attr"]
    ELSE LET a == attrConv[attr]
             held == {m.descr[s] : s \in DOMAIN m.descr}
         IN  [m |-> [m EXCEPT
                        !.Doc.descs =
                            [i \in 1..Len(m.Doc.descs) |->
                                IF i \in held
                                THEN [m.Doc.descs[i] EXCEPT
                                         !.Child = SelectSeq(@, LAMBDA c :
                                                       c.Name # a.xmlName)]
                                ELSE m.Doc.descs[i]],
                        !.attr = [n \in DOMAIN m.attr \ {a.xmlName} |-> m.attr[n]]],
              err |-> "nil"]

----------------------------------------------------------------------------
(* XMP inputs: parsed packets of up to MaxDescs rdf:Description elements  *)
(* and up to MaxXmpOps calls after the document is loaded.                *)

MaxDescs == 2
MaxXmpOps == 2

XmpKids ==
    { <<>>,
      <<[Name |-> xmlName(xmpns, "Rating"), Value |-> "3"]>>,
      <<[Name |-> xmlName(xmpns, "Rating"), Value |-> "abc"]>>,
      <<[Name |-> xmlName(tiffns, "Make"), Value |-> "Canon"]>>,
      <<[Name |-> xmlName(xmpns, "Rating"), Value |-> "5"],
        [Name |-> xmlName(tiffns, "Make"), Value |-> "Canon"]>>,
      <<[Name |-> xmlName(xmpns, "Rating"), Value |-> "3"],
        [Name |-> xmlName(xmpns, "Rating"), Value |-> "5"]>> }

XmpDescs == {[ns |-> s, Child |-> c] : s \in {{}, {xmpns}, {xmpns, tiffns}},
                                       c \in XmpKids}

RECURSIVE XmpDescSeqs(_)
XmpDescSeqs(n) ==
    IF n = 0 THEN {<<>>}
    ELSE LET shorter == XmpDescSeqs(n - 1) IN
         shorter \cup {Append(s, d) : s \in shorter, d \in XmpDescs}

\* The nodes of a parsed document get their addresses in document order.
RECURSIVE Addressed(_, _)
Addressed(ds, from) ==
    IF ds = <<>> THEN <<>>
    ELSE <<[Head(ds) EXCEPT
               !.Child = [k \in 1..Len(Head(ds).Child) |->
                             [id |-> from + k, Name |-> Head(ds).Child[k].Name,
                              Value |-> Head(ds).Child[k].Value]]]>>
             \o Addressed(Tail(ds), from + Len(Head(ds).Child))

XmpPackets ==
    {[root |-> r, descs |-> Addressed(ds, 0)] :
         r \in {"xmpmeta", "RDF"}, ds \in XmpDescSeqs(MaxDescs)}
        \cup {[root |-> "html", descs |-> <<>>]}

XmpValues == {[int |-> 5], [string |-> "Nikon"]}

XmpAttrs == {"Rating", "Make", "Software"}

\* The addresses of the nodes of document doc
NodeIds(doc) ==
    UNION {{doc.descs[i].Child[k].id : k \in 1..Len(doc.descs[i].Child)} :
              i \in 1..Len(doc.descs)}

InitXmp ==
    /\ xmPacket \in XmpPackets
    /\ xmpM = NewMeta
    /\ xmHow = "new"
    /\ xmOps = 0
    /\ xmLast = [op |-> "none"]
    /\ NoStream
    /\ ScanIdle
    /\ RewriteIdle
    /\ Mp4Idle
    /\ ExifIdle
    /\ XmpRestIdle

\* m, err := Decode(r)
DoXmpDecode ==
    /\ xmHow = "new"
    /\ \E r \in {Xmp_Decode(xmPacket)} :
          /\ xmpM' = IF r.err = "nil" THEN r.m ELSE xmpM
          /\ xmHow' = IF r.err = "nil" THEN "Decode" ELSE "failed"
          /\ xmLast' = [op |-> "Decode", err |-> r.err]
    /\ UNCHANGED <<xmPacket, xmOps, xmpFrame>>

\* m := new(Meta); err := m.UnmarshalMetadata(p)
DoUnmarshalMetadata ==
    /\ xmHow = "new"
    /\ xmpM' = UnmarshalMetadata(xmpM, xmPacket)
    /\ xmHow' = "UnmarshalMetadata"
    /\ xmLast' = [op |-> "UnmarshalMetadata", err |-> "nil"]
    /\ UNCHANGED <<xmPacket, xmOps, xmpFrame>>

DoSetMetadataAttr ==
    /\ xmHow \in {"Decode", "UnmarshalMetadata"}
    /\ xmOps < MaxXmpOps
    /\ \E attr \in XmpAttrs, v \in XmpValues :
          \E r \in {SetMetadataAttr(xmpM, attr, v, 100 + xmOps)} :
              /\ xmpM' = r.m
              /\ xmLast' = [op |-> "Set", attr |-> attr, value |-> v, err |-> r.err]
    /\ xmOps' = xmOps + 1
    /\ UNCHANGED <<xmPacket, xmHow, xmpFrame>>

DoDeleteMetadataAttr ==
    /\ xmHow \in {"Decode", "UnmarshalMetadata"}
    /\ xmOps < MaxXmpOps
    /\ \E attr \in XmpAttrs :
          \E r \in {DeleteMetadataAttr(xmpM, attr)} :
              /\ xmpM' = r.m
              /\ xmLast' = [op |-> "Delete", attr |-> attr, err |-> r.err]
    /\ xmOps' = xmOps + 1
    /\ UNCHANGED <<xmPacket, xmHow, xmpFrame>>

DoGetMetadataAttr ==
    /\ xmHow \in {"Decode", "UnmarshalMetadata"}
    /\ xmLast.op # "Get"
    /\ \E attr \in XmpAttrs :
          xmLast' = [op |-> "Get", attr |-> attr,
                     value |-> GetMetadataAttr(xmpM, attr)]
    /\ UNCHANGED <<xmpM, xmPacket, xmHow, xmOps, xmpFrame>>

NextXmp ==
    \/ DoXmpDecode
    \/ DoUnmarshalMetadata
    \/ DoSetMetadataAttr
    \/ DoDeleteMetadataAttr
    \/ DoGetMetadataAttr

SpecXmp == InitXmp /\ [][NextXmp]_vars

----------------------------------------------------------------------------
(* What the XMP driver is to achieve *)

\* The children named name, over the Descriptions at the places in at
Named(doc, at, name) ==
    UNION {{doc.descs[i].Child[k] :
               k \in {n \in 1..Len(doc.descs[i].Child) :
                         doc.descs[i].Child[n].Name = name}} : i \in at}

\* The Descriptions of doc that declare namespace ns
Declaring(doc, ns) == {i \in 1..Len(doc.descs) : ns \in doc.descs[i].ns}

\* A packet in which every child sits in one Description that declares its
\* namespace, every namespace is declared once, and no name occurs twice.
Tidy(doc) ==
    /\ \A i \in 1..Len(doc.descs) : \A k \in 1..Len(doc.descs[i].Child) :
          doc.descs[i].Child[k].Name.Space \in doc.descs[i].ns
    /\ \A i, k \in 1..Len(doc.descs) :
          i # k => doc.descs[i].ns \cap doc.descs[k].ns = {}
    /\ \A a \in DOMAIN attrConv :
          Cardinality(Named(doc, 1..Len(doc.descs), attrConv[a].xmlName)) <= 1

\* C12: on a document loaded by Decode from a tidy packet, after any calls
\* of SetMetadataAttr and DeleteMetadataAttr, the cache maps an attribute's
\* name to a node exactly when that node (the same address) is the child of
\* that name in the rdf:Description of the name's namespace.
C12_CacheInLockStep ==
    (xmHow = "Decode" /\ Tidy(xmPacket)) =>
        \A a \in DOMAIN attrConv :
            LET name == attrConv[a].xmlName
                kids == Named(xmpM.Doc, Declaring(xmpM.Doc, name.Space), name)
            IN  /\ name \in DOMAIN xmpM.attr => kids = {xmpM.attr[name]}
                /\ kids # {} => name \in DOMAIN xmpM.attr

\* The recognized attributes whose element, with a text its conversion
\* parses, is in an rdf:Description of doc
Parseable(doc) ==
    {a \in DOMAIN attrConv :
        \E n \in Named(doc, 1..Len(doc.descs), attrConv[a].xmlName) :
            fromXML(attrConv[a], n) # Absent}

\* C13: after UnmarshalMetadata of a packet with the element of a
\* recognized attribute and a parseable value, GetMetadataAttr of that
\* attribute is not absent.
C13_GetAfterUnmarshal ==
    (xmHow = "UnmarshalMetadata" /\ xmOps = 0) =>
        \A a \in Parseable(xmPacket) : GetMetadataAttr(xmpM, a) # Absent

\* C14: after DeleteMetadataAttr(attr) returned nil, GetMetadataAttr(attr)
\* is absent and no rdf:Description of the document has a child of the
\* attribute's name.
C14_DeleteRemoves ==
    (xmLast.op = "Delete" /\ xmLast.err = "nil") =>
        /\ GetMetadataAttr(xmpM, xmLast.attr) = Absent
        /\ Named(xmpM.Doc, 1..Len(xmpM.Doc.descs), attrConv[xmLast.attr].xmlName) = {}

\* C24: on a document loaded by Decode from a tidy packet, after
\* SetMetadataAttr(attr, v) returned nil, GetMetadataAttr(attr) is v.
C24_GetAfterSet ==
    (xmHow = "Decode" /\ Tidy(xmPacket) /\ xmLast.op = "Set" /\ xmLast.err = "nil") =>
        GetMetadataAttr(xmpM, xmLast.attr) = xmLast.value


----------------------------------------------------------------------------
(* Part 7: package metadata (src/metadata.go)                               *)
(*                                                                         *)
(* An attribute value is Absent (nil), [int |-> i], [string |-> s] or      *)
(* [time |-> [prec, hasLoc, at]]: a time.Time read from a text with prec   *)
(* components, whose location is time.Local exactly when the text had no   *)
(* zone (hasLoc false), and which stands for instant at.  A Metadata is    *)
(* [Attr, DateTimeOriginal, Rating, Make]: the map and the fields that Set *)
(* keeps for the attributes of the model.                                  *)

IsTime(v) == "time" \in DOMAIN v

ZeroTime == [time |-> [prec |-> 0, hasLoc |-> TRUE, at |-> 0]]

\* new(Metadata)
NewMetadata ==
    [Attr |-> EmptyMap, DateTimeOriginal |-> ZeroTime, Rating |-> 0, Make |-> ""]

\* The attributes of attrNames that the model follows, in their order.
attrNames == <<"DateTimeOriginal", "Rating", "Make">>

\* timeBetter(val, than) of src/metadata.go, val the value of any type
timeBetter(val, than) ==
    IF ~IsTime(val) THEN TRUE
    ELSE LET vallocal == ~val.time.hasLoc
             thanlocal == ~than.time.hasLoc
         IN  vallocal /\ ~thanlocal

\* timeBetter(val, than) of the earlier version (src/unnamed/part_010)
timeBetter_part010(val, than) ==
    LET score(t) == t.time.prec + (IF t.time.prec > 3 /\ t.time.hasLoc THEN 2 ELSE 0)
    IN  score(val) > score(than)

\* m.Set(key, value), with updateValue[key]
Metadata_Set(m, key, value) ==
    LET m1 == [m EXCEPT !.Attr = (key :> value) @@ m.Attr] IN
    CASE key = "DateTimeOriginal" /\ IsTime(value) ->
             [m1 EXCEPT !.DateTimeOriginal = value]
      [] key = "Rating" /\ "int" \in DOMAIN value -> [m1 EXCEPT !.Rating = value.int]
      [] key = "Make" /\ "string" \in DOMAIN value -> [m1 EXCEPT !.Make = value.string]
      [] OTHER -> m1

\* m.update(attr, value)
Metadata_update(m, attr, value) ==
    IF value = Absent THEN m
    ELSE IF IsTime(value) /\ attr \in DOMAIN m.Attr /\ timeBetter(m.Attr[attr], value)
    THEN m
    ELSE Metadata_Set(m, attr, value)

\* Merge(v...): [nil, m]; the keys of a map are visited in any order, and
\* the visits of different keys do not touch each other
Merge(v) ==
    IF Len(v) = 0 THEN [nil |-> TRUE, m |-> NewMetadata]
    ELSE IF Len(v) = 1 THEN [nil |-> FALSE, m |-> v[1]]
    ELSE LET RECURSIVE keys(_, _, _)
             keys(result, m, ks) ==
                 IF ks = {} THEN result
                 ELSE LET key == CHOOSE k \in ks : TRUE
                          val == m.Attr[key]
                          existing == IF key \in DOMAIN result.Attr
                                      THEN result.Attr[key] ELSE Absent
                          skip == IsTime(val) /\
                                      (key \in DOMAIN result.Attr \/ timeBetter(existing, val))
                      IN  keys(IF skip THEN result ELSE Metadata_Set(result, key, val),
                               m, ks \ {key})
             RECURSIVE each(_, _)
             each(i, result) ==
                 IF i > Len(v) THEN result
                 ELSE each(i + 1, keys(result, v[i], DOMAIN v[i].Attr))
         IN  [nil |-> FALSE, m |-> each(1, NewMetadata)]

\* isMagic(prefix, magic); byte 63 is '?'
isMagic(prefix, magic) ==
    /\ Len(prefix) >= Len(magic)
    /\ \A i \in 1..Len(magic) : magic[i] = 63 \/ magic[i] = prefix[i]

\* metaio.ContainerPeekLen() with the formats of reg registered
ContainerPeekLen(reg) ==
    LET RECURSIVE longest(_)
        longest(i) == IF i = 0 THEN 0 ELSE Max(Len(reg[i].magic), longest(i - 1))
    IN  longest(Len(reg))

\* metaio.GetContainerFormat(prefix): the place of the format in reg, or 0
GetContainerFormat(reg, prefix) ==
    LET hits == {i \in 1..Len(reg) : isMagic(prefix, reg[i].magic)} IN
    IF hits = {} THEN 0 ELSE CHOOSE i \in hits : \A k \in hits : i <= k

\* The names for which metaio.NewMetadata gives a Metadata.
metadataFormats == {"xmp", "exif"}

\* What m.GetMetadataAttr(n) gives after m.UnmarshalMetadata(data) returned
\* nil: the XMP driver of Part 6, and for the other formats the attributes
\* that the blob is made of.
BlobAttr(blob, n) ==
    IF blob.name = "xmp"
    THEN GetMetadataAttr(UnmarshalMetadata(NewMeta, blob.data), n)
    ELSE IF n \in DOMAIN blob.data THEN blob.data[n] ELSE Absent

\* Parse(r): [result, nil, err], for a source of bytes file in the container
\* of which cf.Scan finds the blobs and then returns scanErr
Parse(reg, file, blobs, scanErr) ==
    LET sniffLen == ContainerPeekLen(reg)
        p == Slice(file, 0, sniffLen)
        cf == GetContainerFormat(reg, p)
        unknown == [result |-> NewMetadata, nil |-> TRUE, err |-> "ErrUnknownFormat"]
        RECURSIVE names(_, _, _)
        names(result, blob, i) ==
            IF i > Len(attrNames) THEN result
            ELSE names(Metadata_update(result, attrNames[i], BlobAttr(blob, attrNames[i])),
                       blob, i + 1)
        RECURSIVE scan(_, _, _)
        scan(i, result, metaErr) ==
            IF i > Len(blobs) THEN [result |-> result, metaErr |-> metaErr]
            ELSE IF blobs[i].name \notin metadataFormats
            THEN scan(i + 1, result, metaErr)
            ELSE IF blobs[i].bad
            THEN scan(i + 1, result,
                      IF metaErr = "nil" THEN "unmarshal failed" ELSE metaErr)
            ELSE scan(i + 1, names(result, blobs[i], 1), metaErr)
    IN  IF sniffLen = 0 THEN unknown
        ELSE IF Len(file) < sniffLen THEN unknown
        ELSE IF cf = 0 THEN unknown
        ELSE LET s == scan(1, NewMetadata, "nil") IN
             [result |-> s.result, nil |-> FALSE,
              err |-> IF scanErr # "nil" THEN scanErr ELSE s.metaErr]

----------------------------------------------------------------------------
(* Inputs of package metadata *)

MaxUpdates == 3
MaxMerge == 3
MaxBlobs == 2

TimeValues ==
    {[time |-> [prec |-> p, hasLoc |-> h, at |-> a]] :
         p \in {3, 5, 6}, h \in BOOLEAN, a \in {1}}

ValuesOf(key) ==
    CASE key = "DateTimeOriginal" -> TimeValues
      [] key = "Rating" -> {[int |-> 3], [int |-> 5]}
      [] OTHER -> {[string |-> "Canon"]}

\* The attribute maps over the keys ks
AttrMaps(ks) ==
    UNION {{[k \in d |-> g[k]] : g \in [d -> UNION {ValuesOf(k) : k \in d}]} :
              d \in SUBSET ks}

TypedMaps(ks) == {a \in AttrMaps(ks) : \A k \in DOMAIN a : a[k] \in ValuesOf(k)}

\* The Metadata that Set builds from attribute map a
MetadataOf(a) ==
    LET RECURSIVE build(_, _)
        build(m, ks) ==
            IF ks = {} THEN m
            ELSE LET k == CHOOSE x \in ks : TRUE IN
                 build(Metadata_Set(m, k, a[k]), ks \ {k})
    IN  build(NewMetadata, DOMAIN a)

MergeInputs == {MetadataOf(a) : a \in TypedMaps({"DateTimeOriginal", "Rating"})}

RECURSIVE SeqsUpTo(_, _)
SeqsUpTo(S, n) ==
    IF n = 0 THEN {<<>>}
    ELSE LET shorter == SeqsUpTo(S, n - 1) IN
         shorter \cup {Append(s, e) : s \in shorter, e \in S}

jpegMagic == <<255, 216, 255>>
mp4Magic == <<63, 63, 63, 63, 102, 116, 121, 112>>

Registries ==
    {<<>>, <<[name |-> "jpeg", magic |-> jpegMagic]>>,
     <<[name |-> "jpeg", magic |-> jpegMagic], [name |-> "mp4", magic |-> mp4Magic]>>}

ParseFiles ==
    {<<>>, <<255, 216>>, <<255, 216, 255, 224, 0, 16, 74, 70, 73, 70>>,
     <<0, 0, 0, 16, 102, 116, 121, 112, 105, 115, 111, 109>>,
     <<137, 80, 78, 71, 13, 10, 26, 10, 0, 0>>}

SamplePacket ==
    [root |-> "xmpmeta",
     descs |-> Addressed(<<[ns |-> {xmpns},
                            Child |-> <<[Name |-> xmlName(xmpns, "Rating"),
                                         Value |-> "3"]>>]>>, 0)]

ParseBlobs ==
    {[name |-> "exif", bad |-> b, data |-> a] :
         b \in BOOLEAN, a \in {t \in TypedMaps({"DateTimeOriginal", "Make"}) :
                                  \A k \in DOMAIN t : IsTime(t[k]) => t[k].time.prec = 6}}
        \cup {[name |-> "xmp", bad |-> FALSE, data |-> SamplePacket],
              [name |-> "icc", bad |-> FALSE, data |-> EmptyMap]}

InitMeta ==
    /\ mdM = NewMetadata
    /\ mdN = 0
    /\ mdLast = [op |-> "none"]
    /\ NoStream
    /\ ScanIdle
    /\ RewriteIdle
    /\ Mp4Idle
    /\ ExifIdle
    /\ XmpIdle
    /\ MetaRestIdle

\* m.update(attr, value)
DoUpdate ==
    /\ mdN < MaxUpdates
    /\ \E attr \in {"DateTimeOriginal", "Rating"} :
          \E value \in ValuesOf(attr) \cup {Absent} :
              /\ mdM' = Metadata_update(mdM, attr, value)
              /\ mdLast' = [op |-> "update", attr |-> attr, value |-> value,
                            before |-> mdM]
    /\ mdN' = mdN + 1
    /\ UNCHANGED metaFrame

\* result := Merge(v...)
DoMerge ==
    /\ mdLast.op = "none"
    /\ \E v \in SeqsUpTo(MergeInputs, MaxMerge) :
          \E r \in {Merge(v)} :
              mdLast' = [op |-> "Merge", v |-> v, nil |-> r.nil, result |-> r.m]
    /\ UNCHANGED <<mdM, mdN, metaFrame>>

\* result, err := Parse(r)
DoParse ==
    /\ mdLast.op = "none"
    /\ \E reg \in Registries, file \in ParseFiles,
          blobs \in SeqsUpTo(ParseBlobs, MaxBlobs), scanErr \in {"nil", "scan failed"} :
          \E r \in {Parse(reg, file, blobs, scanErr)} :
              mdLast' = [op |-> "Parse", reg |-> reg, file |-> file, blobs |-> blobs,
                         scanErr |-> scanErr, nil |-> r.nil, result |-> r.result,
                         err |-> r.err]
    /\ UNCHANGED <<mdM, mdN, metaFrame>>

NextMeta ==
    \/ DoUpdate
    \/ DoMerge
    \/ DoParse

SpecMeta == InitMeta /\ [][NextMeta]_vars

----------------------------------------------------------------------------
(* What package metadata is to achieve *)

\* The update policy: time a is better than time b.
Better(a, b) ==
    \/ a.time.prec > b.time.prec
    \/ /\ a.time.prec = b.time.prec
       /\ a.time.prec >= 4
       /\ a.time.hasLoc
       /\ ~b.time.hasLoc

\* C15: when update gives an attribute that has a value a new value, a time
\* is replaced exactly if the incoming time is better (higher precision, or
\* the same precision of 4 or more with a zone against none) and stays
\* otherwise; a value that is no time is always replaced.
C15_UpdatePolicy ==
    (/\ mdLast.op = "update"
     /\ mdLast.value # Absent
     /\ mdLast.attr \in DOMAIN mdLast.before.Attr) =>
        LET existing == mdLast.before.Attr[mdLast.attr] IN
        mdM.Attr[mdLast.attr] =
            IF IsTime(mdLast.value) /\ ~Better(mdLast.value, existing)
            THEN existing ELSE mdLast.value

\* The values that the inputs of the last Merge have for key
Offered(key) ==
    {mdLast.v[i].Attr[key] : i \in {n \in 1..Len(mdLast.v) : key \in DOMAIN mdLast.v[n].Attr}}

\* C16: the result of Merge of two or more inputs has a value for every key
\* that an input has, and for a time-valued key it is a value of an input
\* that no input's value is better than.
C16_MergeKeepsBest ==
    (mdLast.op = "Merge" /\ Len(mdLast.v) >= 2) =>
        \A key \in UNION {DOMAIN mdLast.v[i].Attr : i \in 1..Len(mdLast.v)} :
            /\ key \in DOMAIN mdLast.result.Attr
            /\ mdLast.result.Attr[key] \in Offered(key)
            /\ IsTime(mdLast.result.Attr[key]) =>
                   \A o \in Offered(key) : ~Better(o, mdLast.result.Attr[key])

\* C17: Parse returns ErrUnknownFormat when no registered magic matches the
\* sniffed prefix, and ErrNoMeta when a container is recognized and its
\* scan finds no metadata blob; the error is not nil in either case.
C17_ParseErrors ==
    mdLast.op = "Parse" =>
        LET sniffLen == ContainerPeekLen(mdLast.reg)
            hit == /\ Len(mdLast.file) >= sniffLen
                   /\ \E i \in 1..Len(mdLast.reg) :
                          isMagic(Slice(mdLast.file, 0, sniffLen), mdLast.reg[i].magic)
        IN  /\ ~hit => mdLast.err = "ErrUnknownFormat"
            /\ (hit /\ mdLast.blobs = <<>>) => mdLast.err = "ErrNoMeta"

----------------------------------------------------------------------------
(* Part 8: FileMod (src/file.go)                                            *)
(*                                                                         *)
(* A FileOp is [Offset, Size, Data].  A source is [src, eofWithData]: its  *)
(* bytes, and whether its Read returns io.EOF together with the last bytes *)
(* (as io.Reader allows) or only on the call after them.  A Read of the    *)
(* source may return any number of bytes from 1 to the number asked for.   *)

\* ops.Valid()
Valid(ops) ==
    LET RECURSIVE ok(_, _)
        ok(k, off) ==
            IF k > Len(ops) THEN TRUE
            ELSE IF ops[k].Offset < off THEN FALSE
            ELSE ok(k + 1, ops[k].Offset + ops[k].Size)
    IN  ok(1, 0)

\* r.Read(q) of the source at position pos with len(q) = want: the results
\* [m, err] it may give
SrcRead(c, pos, want) ==
    IF pos = Len(c.src)
    THEN IF want = 0 THEN {[m |-> 0, err |-> "nil"], [m |-> 0, err |-> "EOF"]}
         ELSE {[m |-> 0, err |-> "EOF"]}
    ELSE IF want = 0 THEN {[m |-> 0, err |-> "nil"]}
    ELSE {[m |-> k,
           err |-> IF c.eofWithData /\ pos + k = Len(c.src) THEN "EOF" ELSE "nil"] :
              k \in 1..Min(want, Len(c.src) - pos)}

\* make([]byte, 4096), the buffer of an opreader
tmpLen == 4096

\* The opreader that ops.Reader(r) returns: [ro, i, do], and pos, the
\* position of the source
NewOpreader == [ro |-> 0, i |-> 0, do |-> 0, pos |-> 0]

\* (r *opreader).Read(p): the results [r, out, err] it may give, from the
\* top of its loop with room bytes of p left and out already in p
RECURSIVE opreader_Read(_, _, _, _)
RECURSIVE opreader_discard(_, _, _, _, _, _)
opreader_discard(c, r, room, out, tmp, err) ==
    LET o == c.ops[r.i + 1]
        end == o.Offset + o.Size
    IN  IF r.ro < end /\ err = "nil"
        THEN UNION {opreader_discard(c, [r EXCEPT !.ro = @ + g.m, !.pos = @ + g.m],
                                     room, out, tmp, g.err) :
                        g \in SrcRead(c, r.pos, Min(end - r.ro, tmp))}
        ELSE LET r1 == IF r.ro = end THEN [r EXCEPT !.i = @ + 1, !.do = 0] ELSE r IN
             IF err # "nil" THEN {[r |-> r1, out |-> out, err |-> err]}
             ELSE opreader_Read(c, r1, room, out)

opreader_Read(c, r, room, out) ==
    IF r.i < Len(c.ops)
    THEN LET o == c.ops[r.i + 1]
             ncopy == o.Offset - r.ro
             first == IF ncopy > 0
                      THEN {[r |-> [r EXCEPT !.ro = @ + g.m, !.pos = @ + g.m],
                             room |-> room - g.m,
                             out |-> out \o SubSeq(c.src, r.pos + 1, r.pos + g.m),
                             err |-> g.err] :
                                g \in SrcRead(c, r.pos, Min(room, ncopy))}
                      ELSE {[r |-> r, room |-> room, out |-> out, err |-> "nil"]}
             yield(a) ==
                 IF a.err # "nil" THEN {[r |-> a.r, out |-> a.out, err |-> a.err]}
                 ELSE IF a.r.ro < o.Offset
                 THEN {[r |-> a.r, out |-> a.out, err |-> "nil"]}
                 ELSE LET m == Min(a.room, Len(o.Data) - a.r.do)
                          r1 == [a.r EXCEPT !.do = @ + m]
                          out1 == a.out \o SubSeq(o.Data, a.r.do + 1, a.r.do + m)
                          room1 == a.room - m
                      IN  IF r1.do < Len(o.Data)
                          THEN {[r |-> r1, out |-> out1, err |-> "nil"]}
                          ELSE opreader_discard(c, r1, room1, out1,
                                                IF tmpLen < room1 THEN room1 ELSE tmpLen,
                                                "nil")
         IN  UNION {yield(a) : a \in first}
    ELSE {[r |-> [r EXCEPT !.pos = @ + g.m],
           out |-> out \o SubSeq(c.src, r.pos + 1, r.pos + g.m),
           err |-> g.err] : g \in SrcRead(c, r.pos, room)}

\* ops.Reader(r).Read(p) with len(p) = size: the source itself when ops is
\* empty, the opreader otherwise
Reader_Read(c, r, size) ==
    IF Len(c.ops) = 0
    THEN {[r |-> [r EXCEPT !.pos = @ + g.m],
           out |-> SubSeq(c.src, r.pos + 1, r.pos + g.m),
           err |-> g.err] : g \in SrcRead(c, r.pos, size)}
    ELSE opreader_Read(c, r, size, <<>>)

\* ops.Copy(w, r) into a writer that takes everything: [out, err].  io.CopyN
\* and io.Copy read until they have what they want or the source ends,
\* whatever the sizes of the reads.
Copy(c) ==
    LET RECURSIVE each(_, _, _)
        each(k, read, out) ==
            IF k > Len(c.ops)
            THEN [out |-> out \o SubSeq(c.src, read + 1, Len(c.src)), err |-> "nil"]
            ELSE LET o == c.ops[k]
                     ncopy == o.Offset - read
                     n == IF ncopy > 0 THEN Min(ncopy, Len(c.src) - read) ELSE 0
                     out1 == out \o SubSeq(c.src, read + 1, read + n)
                     read1 == read + n
                     skip == Min(o.Size, Len(c.src) - read1)
                 IN  IF ncopy > 0 /\ n < ncopy
                     THEN [out |-> out1, err |-> "ErrUnexpectedEOF"]
                     ELSE IF skip < o.Size
                     THEN [out |-> out1 \o o.Data, err |-> "EOF"]
                     ELSE each(k + 1, read1 + skip, out1 \o o.Data)
    IN  each(1, 0, <<>>)

----------------------------------------------------------------------------
(* FileMod inputs: sources of up to MaxSrc bytes, up to MaxOps operations   *)
(* with up to MaxData bytes each, Read buffers of up to MaxBuf bytes.       *)

MaxSrc == 4
MaxOps == 2
MaxData == 2
MaxBuf == 3

FileOps ==
    {[Offset |-> off, Size |-> sz, Data |-> SubSeq(<<201, 202, 203>>, 1, n)] :
         off \in 0..MaxSrc, sz \in 0..2, n \in 0..MaxData}

FileMods == {ops \in SeqsUpTo(FileOps, MaxOps) : Valid(ops)}

FileSources ==
    {[src |-> [k \in 1..n |-> k], eofWithData |-> e] :
         n \in {0, MaxSrc - 2, MaxSrc}, e \in BOOLEAN}

InitFile ==
    /\ \E s \in FileSources, ops \in FileMods :
          fileC = [src |-> s.src, eofWithData |-> s.eofWithData, ops |-> ops]
    /\ fileR = NewOpreader
    /\ fileRead = <<>>
    /\ fileErr = "nil"
    /\ fileCopy = [done |-> FALSE]
    /\ NoStream
    /\ ScanIdle
    /\ RewriteIdle
    /\ Mp4Idle
    /\ ExifIdle
    /\ XmpIdle
    /\ MetaIdle
    /\ FileRestIdle

\* One Read of ops.Reader(r) by a caller that reads until an error.
DoRead ==
    /\ fileErr = "nil"
    /\ \E size \in 1..MaxBuf :
          \E g \in Reader_Read(fileC, fileR, size) :
              /\ fileR' = g.r
              /\ fileRead' = fileRead \o g.out
              /\ fileErr' = g.err
    /\ UNCHANGED <<fileC, fileCopy, fileFrame>>

\* written, err := ops.Copy(w, r) on a source of its own with the same bytes
DoCopy ==
    /\ ~fileCopy.done
    /\ \E g \in {Copy(fileC)} :
          fileCopy' = [done |-> TRUE, out |-> g.out, err |-> g.err]
    /\ UNCHANGED <<fileC, fileR, fileRead, fileErr, fileFrame>>

NextFile ==
    \/ DoRead
    \/ DoCopy

SpecFile == InitFile /\ [][NextFile]_vars

----------------------------------------------------------------------------
(* What FileMod is to achieve *)

\* The source with, at each op, the Size bytes at Offset replaced by Data
Replaced(c) ==
    LET RECURSIVE each(_, _)
        each(k, pos) ==
            IF k > Len(c.ops) THEN SubSeq(c.src, pos + 1, Len(c.src))
            ELSE SubSeq(c.src, pos + 1, c.ops[k].Offset) \o c.ops[k].Data
                     \o each(k + 1, c.ops[k].Offset + c.ops[k].Size)
    IN  each(1, 0)

\* Every op lies within the source.
Fits(c) == \A k \in 1..Len(c.ops) : c.ops[k].Offset + c.ops[k].Size <= Len(c.src)

\* C18: for valid ops that lie within the source, the bytes read from
\* ops.Reader(r) until io.EOF, whatever the sizes of the buffers and of the
\* reads of the source, are the bytes that ops.Copy writes, and both are
\* the source with the Size bytes at Offset of each op replaced by its Data.
C18_ReaderEqualsCopy ==
    (Fits(fileC) /\ fileErr = "EOF" /\ fileCopy.done) =>
        /\ fileRead = fileCopy.out
        /\ fileCopy.out = Replaced(fileC)

----------------------------------------------------------------------------
(* Part 9: the JPEG scanner read chunk by chunk (src/jpeg/jpeg.go,          *)
(* src/jpeg/jpeg_test.go testScannerChunks)                                 *)

\* A segment of 20 bytes, longer than two buffers.
ItemHuge == <<MarkFF, 226, 0, 18>> \o [i \in 1..16 |-> i]

ChunkInputs ==
    ScanInputs \cup
        {<<MarkFF, MarkSOI>> \o a \o ItemHuge \o b \o t :
             a \in {<<>>, ItemSeg3}, b \in {<<>>, ItemJunk, ItemSeg2}, t \in ScanTails}

InitChunks ==
    /\ src \in ChunkInputs
    /\ rdMax \in ReadSizes
    /\ j = NewScanner.j
    /\ items = <<>>
    /\ lastNext = "none"
    /\ rest = <<>>
    /\ phase = "scanning"
    /\ RewriteIdle
    /\ Mp4Idle
    /\ ExifIdle
    /\ LaterIdle

\* One iteration of `for s.Next() { chunk, err := s.ReadChunk() ... }`; the
\* loop is left when ReadChunk fails.
DoNextReadChunk ==
    /\ phase = "scanning"
    /\ lastNext # "false"
    /\ \E nx \in {Scanner_Next(j)} :
          IF ~nx.ok
          THEN /\ j' = nx.j
               /\ lastNext' = "false"
               /\ UNCHANGED <<items, phase>>
          ELSE \E rc \in {Scanner_ReadChunk(nx.j)} :
                  /\ j' = rc.j
                  /\ lastNext' = "true"
                  /\ items' = IF rc.err = "nil"
                              THEN Append(items, [bytes |-> rc.p,
                                                  start |-> rc.j.startChunk])
                              ELSE items
                  /\ phase' = IF rc.err = "nil" THEN phase ELSE "failed"
    /\ UNCHANGED <<src, rdMax, rest, rwVars, mp4Vars, exifVars, laterVars>>

NextChunks == DoNextReadChunk \/ DoReader

SpecChunks == InitChunks /\ [][NextChunks]_vars

\* One whole segment: FF, a marker byte other than 00 and FF, and as many
\* bytes as the declared length plus 2.
WholeSegment(p) ==
    /\ Len(p) >= 4
    /\ p[1] = MarkFF
    /\ p[2] # 0
    /\ p[2] # MarkFF
    /\ Len(p) = p[3] * 256 + p[4] + 2

\* C19: when scanning with ReadChunk after every Next ended with Err() ==
\* nil, the slices ReadChunk returned followed by the bytes of Reader() are
\* the input, and every slice returned while StartChunk() was true is one
\* whole segment.
C19_ChunkRoundTrip ==
    (phase = "drained" /\ j.err = "nil") =>
        /\ Yielded \o rest = src
        /\ \A i \in 1..Len(items) : items[i].start => WholeSegment(items[i].bytes)

----------------------------------------------------------------------------
(* Part 10: the EXIF codec at the length limit (src/exif/coder.go)          *)

\* Exif values are built whose encoding is up to LongSpan bytes longer than
\* the limit of 65533 bytes, and down to 8 + LongSpan bytes shorter.
LongSpan == 4

LongTotals == (65533 - 8 - LongSpan)..(65533 + LongSpan)

Filler(n) == [i \in 1..n |-> 7]

\* An Exif value whose header, directories and thumbnail take total bytes,
\* most of them in a value of IFD0, in a value of the Exif sub-IFD, or in
\* the thumbnail.
LongExif(bo, kind, total) ==
    CASE kind = "ifd0" ->
             [NilExif EXCEPT
                 !.ByteOrder = bo,
                 !.IFD0 = <<Entry(37500, TypeUndef, total - 26, Filler(total - 26))>>]
      [] kind = "exif" ->
             [NilExif EXCEPT
                 !.ByteOrder = bo,
                 !.Exif = <<Entry(37500, TypeUndef, total - 40, Filler(total - 40))>>]
      [] OTHER ->
             [NilExif EXCEPT
                 !.ByteOrder = bo,
                 !.IFD0 = <<eOrientation>>,
                 !.IFD1 = <<eCompression,
                            Entry(ifd1thumbOffset, TypeLong, 1, Zeros(4)),
                            Entry(ifd1thumbLength, TypeLong, 1, Zeros(4))>>,
                 !.Thumb = Filler(total - 68)]

LongValues ==
    {LongExif(bo, kind, total) :
         bo \in {"MM", "II"}, kind \in {"ifd0", "exif", "thumb"}, total \in LongTotals}

InitExifLong ==
    /\ blobB = <<>>
    /\ exifX \in LongValues
    /\ exifStage = "built"
    /\ encP = <<>>
    /\ exifX0 = NilExif
    /\ exifX2 = NilExif
    /\ exifErr = ""
    /\ NoStream
    /\ ScanIdle
    /\ RewriteIdle
    /\ Mp4Idle
    /\ LaterIdle

SpecExifLong == InitExifLong /\ [][NextExif]_vars

\* The total encoded length of x: the 8-byte header, IFD0 with a pointer
\* for exactly the sub-IFDs that have entries, IFD1 and the thumbnail where
\* a thumbnail is written, and the sub-IFDs that have entries.
TotalLen(x) ==
    LET kept == SelectSeq(x.IFD0, LAMBDA t :
                    ~\E n \in 1..3 : subTags[n] = t.Tag /\ subDirs(x)[n] = <<>>)
        missing == {n \in 1..3 :
                       /\ subDirs(x)[n] # <<>>
                       /\ ~\E i \in 1..Len(x.IFD0) : x.IFD0[i].Tag = subTags[n]}
        th == prepareThumb(x)
        RECURSIVE subs(_)
        subs(n) == IF n = 0 THEN 0
                   ELSE subs(n - 1) + (IF subDirs(x)[n] # <<>>
                                       THEN encodedLen(subDirs(x)[n], TRUE) ELSE 0)
    IN  8 + encodedLen(kept, FALSE) + 12 * Cardinality(missing)
          + (IF th.ifd1 # <<>> THEN encodedLen(th.ifd1, FALSE) ELSE 0)
          + subs(3) + Len(th.thumb)

\* C20: EncodeBytes returns ErrTooLong exactly when the total encoded length
\* is more than 65533 bytes; an encoding of up to 65533 bytes is returned
\* without error.
C20_TooLongAbove65533 ==
    (exifStage \in {"encoded", "encodeFailed"} /\ exifErr \in {"nil", "ErrTooLong"}) =>
        (exifErr = "ErrTooLong" <=> TotalLen(exifX0) > 65533)


----------------------------------------------------------------------------
(* Part 11: packing a box tree into bytes (packBox, Box.packChildren) and   *)
(* reading it back (Box.unpackChildren), src/unnamed/part_015.  f holds the *)
(* box and the offset packBox returned, lastData the bytes written.         *)

parentBoxes == {"moov", "trak", "mdia", "minf", "stbl"}

HeaderSize(b) == IF b.Ext THEN 16 ELSE 8

\* string(b.Raw[off+4 : off+8]) for the types the model writes
TypeOfCc4(p) ==
    LET known == {"ftyp", "moov", "mvhd", "trak", "mdia", "minf", "stbl",
                  "stco", "co64", "uuid", "free", "mdat"}
    IN  IF \E t \in known : Cc4(t) = p THEN CHOOSE t \in known : Cc4(t) = p
        ELSE "????"

\* The first loop of unpackChildren, lines 226-258: [Child, err]
RECURSIVE unpackLoop(_, _, _)
unpackLoop(b, off, acc) ==
    LET n == Len(b.Raw) IN
    IF off >= n THEN [Child |-> acc, err |-> ""]
    ELSE IF n - off < 8 THEN [Child |-> acc, err |-> "unpack"]
    ELSE
    LET size0 == GetU32(b.Raw, off)
        typ == TypeOfCc4(Slice(b.Raw, off + 4, off + 8))
        ext == size0 = 1
        off1 == IF ext THEN off + 8 ELSE off
    IN  IF ext /\ n - off1 < 8 THEN [Child |-> acc, err |-> "unpack EOF"]
        ELSE
        LET size1 == IF ext THEN GetU64(b.Raw, off1) ELSE size0
            size == IF size1 = 0 THEN (n - off1) + HeaderSize(b) ELSE size1
            hdr == IF ext THEN 16 ELSE 8
            off2 == off1 + 8
            datalen == size - hdr
        IN  IF size < hdr THEN [Child |-> acc, err |-> "box size invalid"]
            ELSE IF n < off2 + datalen
            THEN [Child |-> acc, err |-> "unpack EOF"]
            ELSE unpackLoop(b, off2 + datalen,
                     Append(acc, [Offset |-> b.Offset + off, Size |-> size,
                                  Ext |-> ext, Type |-> typ,
                                  Raw |-> Slice(b.Raw, off2, off2 + datalen),
                                  Child |-> <<>>]))

\* b.unpackChildren(): [b, err]
RECURSIVE unpackChildren(_)
unpackChildren(b) ==
    IF b.Type \notin parentBoxes THEN [b |-> b, err |-> ""]
    ELSE
    Let(unpackLoop(b, 0, b.Child), LAMBDA u :
        IF u.err # "" THEN [b |-> [b EXCEPT !.Child = u.Child], err |-> u.err]
        ELSE
        LET RECURSIVE each(_, _)
            each(i, r) ==
                IF i > Len(r.b.Child) \/ r.err # "" THEN r
                ELSE Let(unpackChildren(r.b.Child[i]), LAMBDA c :
                         each(i + 1, [b |-> [r.b EXCEPT !.Child[i] = c.b],
                                      err |-> c.err]))
        IN  each(1, [b |-> [b EXCEPT !.Child = u.Child], err |-> ""]))

\* The boxes of a tree.
RECURSIVE NumBoxes(_)
NumBoxes(b) ==
    LET RECURSIVE sum(_)
        sum(i) == IF i > Len(b.Child) THEN 0
                  ELSE NumBoxes(b.Child[i]) + sum(i + 1)
    IN  1 + sum(1)

\* The trees to pack: moov boxes, tracks and header boxes.
PackBoxes == Moovs \cup Traks \cup {Leaf("mvhd", Rep(n, 7)) : n \in {0, 4, 8, 12}}

\* The buffers packBox is handed for b: of the packed size, and with eight
\* bytes more for every box of the tree.
PackBuffers(b) == {Zeros(packedSize(b)), Zeros(packedSize(b) + 8 * NumBoxes(b))}

InitPack ==
    /\ f \in {[Child |-> <<b>>, off |-> 0] : b \in PackBoxes}
    /\ calls = 0
    /\ prevChild = <<>>
    /\ lastData = <<>>
    /\ lastPath = "none"
    /\ panicked = ""
    /\ NoStream
    /\ ScanIdle
    /\ RewriteIdle
    /\ ExifIdle
    /\ LaterIdle

\* off := packBox(b, p, 0)
DoPackBox ==
    /\ calls = 0
    /\ \E p \in PackBuffers(f.Child[1]) :
       \E r \in {packBox(f.Child[1], p, 0)} :
          /\ f' = [f EXCEPT !.off = r.off]
          /\ lastData' = r.p
          /\ panicked' = r.panic
    /\ lastPath' = "packBox"
    /\ prevChild' = f.Child
    /\ calls' = 1
    /\ UNCHANGED <<scanVars, rwVars, exifVars, laterVars>>

\* b.packChildren()
DoPackChildren ==
    /\ calls = 0
    /\ \E r \in {packChildren(f.Child[1])} :
          /\ f' = [Child |-> <<r.b>>,
                   off |-> IF r.panic = "" THEN r.b.Size ELSE 0]
          /\ lastData' = IF r.panic = "" THEN r.b.Raw ELSE <<>>
          /\ panicked' = r.panic
    /\ lastPath' = "packChildren"
    /\ prevChild' = f.Child
    /\ calls' = 1
    /\ UNCHANGED <<scanVars, rwVars, exifVars, laterVars>>

NextPack == DoPackBox \/ DoPackChildren

SpecPack == InitPack /\ [][NextPack]_vars

\* What a box tree says: types, sizes as packed, contents of the leaves.
RECURSIVE TreeOf(_)
TreeOf(b) ==
    [Type |-> b.Type, Size |-> b.Size,
     Raw |-> IF b.Child = <<>> THEN b.Raw ELSE <<>>,
     Child |-> [i \in 1..Len(b.Child) |-> TreeOf(b.Child[i])]]

Packed == lastPath \in {"packBox", "packChildren"}

\* C23: packing a box below 2^32 bytes writes the 8-byte header with the
\* 32-bit size and the type, fills exactly packedSize() bytes, and
\* unpackChildren of the bytes after the header gives back the children with
\* their types, sizes and contents.
C23_PackedLayout ==
    Packed =>
        LET b == prevChild[1]
            size == packedSize(b)
        IN  /\ panicked = ""
            /\ f.off = size
            /\ Len(lastData) >= size
            /\ Slice(lastData, 0, 4) = U32(size)
            /\ Slice(lastData, 4, 8) = Cc4(b.Type)
            /\ b.Type \in parentBoxes =>
                   LET u == unpackChildren([b EXCEPT !.Raw = Slice(lastData, 8, size),
                                                     !.Child = <<>>])
                   IN  /\ u.err = ""
                       /\ TreeOf(u.b).Child = TreeOf(b).Child


----------------------------------------------------------------------------
(* Part 12: the JPEG scanner on input that ends inside a segment            *)
(* (src/jpeg/jpeg.go Next, ReadChunk)                                       *)

\* A segment cut short: its four header bytes and not all its declared bytes.
Cuts(seg) == {SubSeq(seg, 1, k) : k \in 4..(Len(seg) - 1)}

\* Inputs that end inside their last segment.
TruncInputs ==
    {<<MarkFF, MarkSOI>> \o a \o c :
         a \in {<<>>, ItemJunk, ItemSeg2, ItemSeg3, ItemLong, ItemSeg3 \o ItemLong},
         c \in Cuts(ItemSeg3) \cup Cuts(ItemLong) \cup Cuts(ItemHuge)}

InitTrunc ==
    /\ src \in TruncInputs
    /\ rdMax \in ReadSizes
    /\ j = NewScanner.j
    /\ items = <<>>
    /\ lastNext = "none"
    /\ rest = <<>>
    /\ phase = "scanning"
    /\ RewriteIdle
    /\ Mp4Idle
    /\ ExifIdle
    /\ LaterIdle

\* s.Next() once more after the loop was left.
DoNextAgain ==
    /\ \/ phase = "scanning" /\ lastNext = "false"
       \/ phase = "failed"
    /\ \E nx \in {Scanner_Next(j)} :
          /\ j' = nx.j
          /\ lastNext' = IF nx.ok THEN "true" ELSE "false"
    /\ phase' = "again"
    /\ UNCHANGED <<src, rdMax, items, rest, rwVars, mp4Vars, exifVars, laterVars>>

NextTrunc == DoNext \/ DoNextReadChunk \/ DoNextAgain

SpecTrunc == InitTrunc /\ [][NextTrunc]_vars

\* The loop over the items was left: Next returned false or ReadChunk failed.
ScanStopped == lastNext = "false" \/ phase \in {"failed", "again"}

\* C26: on input that ends inside a segment, when the loop is left the
\* scanner's error is unexpected-EOF, and a further Next returns false.
C26_UnexpectedEOF ==
    ScanStopped =>
        /\ j.err = "UnexpectedEOF"
        /\ phase = "again" => lastNext = "false"


----------------------------------------------------------------------------
(* Part 13: the JPEG rewriter refusing its input (blob too long for one     *)
(* segment, reader that cannot be rewound), src/unnamed/part_000            *)

\* WriteChunk: the most bytes of a segment after its FF and marker byte.
MaxChunk == 65535

\* The shortest blobs that no longer fit one segment, and the longest that
\* does.
ExifTooLong == [Name |-> "exif", Bytes |-> Rep(MaxChunk - 4 - Len(jpegExifPfx) + 1, 1)]
ExifLongest == [Name |-> "exif", Bytes |-> Rep(MaxChunk - 4 - Len(jpegExifPfx), 1)]
XmpTooLong == [Name |-> "xmp", Bytes |-> Rep(MaxChunk - 4 - Len(jpegXMPPfx) + 1, 2)]

LongBlobLists ==
    {<<ExifTooLong>>, <<ExifLongest>>, <<XmpTooLong>>, <<XmpBlob, ExifTooLong>>,
     <<ExifBlob>>}

InitRewriteErr ==
    /\ src \in {<<MarkFF, MarkSOI>> \o s \o t : s \in RwItemSeqs(1), t \in ScanTails}
    /\ rdMax \in {3, BufSize}
    /\ meta \in LongBlobLists
    /\ wFailAt = 0
    /\ wout = <<>>
    /\ rwErr = "none"
    /\ rwOp = "none"
    /\ rwSeek \in BOOLEAN
    /\ ScanIdle
    /\ Mp4Idle
    /\ ExifIdle
    /\ LaterIdle

SpecRewriteErr == InitRewriteErr /\ [][NextRewrite]_vars

\* C28: when the rewriter returns ErrTooLong or ErrNotReadSeeker it has
\* written nothing to the output.
C28_NothingWrittenOnRefusal ==
    (rwOp # "none" /\ rwErr \in {"ErrTooLong", "ErrNotReadSeeker"}) => wout = <<>>


----------------------------------------------------------------------------
(* Part 14: editing a Dir (src/exif/coder.go Dir.Index, Dir.EnsureTag,      *)
(* Dir.Remove).  Indexes are zero-based as in the source.                   *)

\* Entry{Tag: t}
EmptyEntry(t) == Entry(t, 0, 0, <<>>)

\* d.EnsureTag(t): the Dir after the call and the index of the entry
\* pointed to.
EnsureTag(d0, t) ==
    Let(d0, LAMBDA d :
        LET i == SearchTag(d, t, 0, Len(d)) IN
        IF i = Len(d)
        THEN [d |-> Append(d, EmptyEntry(t)), i |-> i]
        ELSE IF d[i + 1].Tag # t
        THEN LET d1 == Append(d, Entry(0, 0, 0, <<>>))
                 d2 == CopyAt(d1, i + 1, Slice(d1, i, Len(d1)))
             IN  [d |-> [d2 EXCEPT ![i + 1] = EmptyEntry(t)], i |-> i]
        ELSE [d |-> d, i |-> i])

\* A claim's mutation of Remove: the entry after the one looked for goes.
Remove_next(d0, t) ==
    Let(d0, LAMBDA d :
        LET i == Index(d, t) IN
        IF i = -1 \/ i + 1 >= Len(d) THEN d
        ELSE Slice(CopyAt(d, i + 1, Slice(d, i + 2, Len(d))), 0, Len(d) - 1))

\* d.Remove(t)
Remove(d0, t) ==
    Let(d0, LAMBDA d :
        LET i == Index(d, t) IN
        IF i = -1 THEN d
        ELSE Slice(CopyAt(d, i, Slice(d, i + 1, Len(d))), 0, Len(d) - 1))

\* Tags 1..MaxTag, at most MaxDirOps calls.
MaxTag == 4

MaxDirOps == 3

DirTags == 1..MaxTag

\* The entry of tag t as a decoder delivers it: one byte.
ByteEntry(t) == Entry(t, TypeByte, 1, <<100 + t>>)

\* The Dir with the entries of the tags in T, sorted by tag.
RECURSIVE DirOf(_)
DirOf(T) ==
    IF T = {} THEN <<>>
    ELSE LET t == CHOOSE m \in T : \A n \in T : n <= m IN
         Append(DirOf(T \ {t}), ByteEntry(t))

InitDir ==
    /\ dirD \in {DirOf(T) : T \in SUBSET DirTags}
    /\ dirLast = [op |-> "none", n |-> 0]
    /\ TimeIdle
    /\ NoStream
    /\ ScanIdle
    /\ RewriteIdle
    /\ Mp4Idle
    /\ ExifIdle
    /\ XmpIdle
    /\ MetaIdle
    /\ FileIdle

DoEnsureTag ==
    /\ dirLast.n < MaxDirOps
    /\ \E t \in DirTags :
       \E r \in {EnsureTag(dirD, t)} :
          /\ dirD' = r.d
          /\ dirLast' = [op |-> "EnsureTag", n |-> dirLast.n + 1, t |-> t,
                         before |-> dirD, ret |-> r.i]
    /\ UNCHANGED dirFrame

DoRemove ==
    /\ dirLast.n < MaxDirOps
    /\ \E t \in DirTags :
          /\ dirD' = Remove(dirD, t)
          /\ dirLast' = [op |-> "Remove", n |-> dirLast.n + 1, t |-> t,
                         before |-> dirD, ret |-> 0]
    /\ UNCHANGED dirFrame

DoIndex ==
    /\ dirLast.n < MaxDirOps
    /\ \E t \in DirTags :
          dirLast' = [op |-> "Index", n |-> dirLast.n + 1, t |-> t,
                      before |-> dirD, ret |-> Index(dirD, t)]
    /\ UNCHANGED <<dirD, dirFrame>>

NextDir == DoEnsureTag \/ DoRemove \/ DoIndex

SpecDir == InitDir /\ [][NextDir]_vars

\* The places of d that hold tag t.
PlacesOf(d, t) == {i \in 1..Len(d) : d[i].Tag = t}

StrictlySorted(d) == \A i \in 1..(Len(d) - 1) : d[i].Tag < d[i + 1].Tag

\* The entries of d with tag below t, and those with tag above t.
Below(d, t) == SelectSeq(d, LAMBDA e : e.Tag < t)
Above(d, t) == SelectSeq(d, LAMBDA e : e.Tag > t)

\* C29: after any calls of EnsureTag, Remove and Index on a Dir sorted by
\* strictly increasing tag, the Dir is sorted by strictly increasing tag;
\* Index(t) is the place of tag t, or -1 if there is none; EnsureTag(t)
\* leaves a Dir that holds t as it is and puts an empty entry of tag t in
\* its place otherwise, and points to the entry of tag t; Remove(t) takes
\* out the entry of tag t and nothing else.
C29_DirStaysSorted ==
    /\ StrictlySorted(dirD)
    /\ dirLast.op = "Index" =>
           IF PlacesOf(dirD, dirLast.t) = {} THEN dirLast.ret = -1
           ELSE PlacesOf(dirD, dirLast.t) = {dirLast.ret + 1}
    /\ dirLast.op = "EnsureTag" =>
           /\ PlacesOf(dirD, dirLast.t) = {dirLast.ret + 1}
           /\ IF PlacesOf(dirLast.before, dirLast.t) # {}
              THEN dirD = dirLast.before
              ELSE dirD = Below(dirLast.before, dirLast.t)
                              \o <<EmptyEntry(dirLast.t)>>
                              \o Above(dirLast.before, dirLast.t)
    /\ dirLast.op = "Remove" =>
           dirD = Below(dirLast.before, dirLast.t) \o Above(dirLast.before, dirLast.t)

\* Remove took an entry out of the middle of a Dir into which an earlier
\* EnsureTag had put a new entry between two others.
C29_Witness ==
    /\ dirLast.op = "Remove"
    /\ Len(dirD) = Len(dirLast.before) - 1
    /\ Below(dirD, dirLast.t) # <<>>
    /\ Above(dirD, dirLast.t) # <<>>
    /\ \E i \in 2..(Len(dirD) - 1) : dirD[i] = EmptyEntry(dirD[i].Tag)


----------------------------------------------------------------------------
(* Part 15: reading a time from an Exif value (src/exif/util.go Exif.Time,  *)
(* timeFromTags, timePart).  A string is the sequence of its characters; a  *)
(* time is its calendar date, clock time, nanoseconds and location.         *)

DigitChars == <<"0", "1", "2", "3", "4", "5", "6", "7", "8", "9">>

isDigit(s, i) == i < Len(s) /\ \E n \in 1..10 : DigitChars[n] = s[i + 1]

DigitVal(c) == (CHOOSE n \in 1..10 : DigitChars[n] = c) - 1

Drop(s, n) == SubSeq(s, n + 1, Len(s))

\* time.Time{}
ZeroTm ==
    [Y |-> 1, M |-> 1, D |-> 1, h |-> 0, mi |-> 0, s |-> 0, ns |-> 0, loc |-> "UTC"]

\* getnum of package time: one or two digits, two if fixed.
getnum(s, fixed) ==
    IF ~isDigit(s, 0) THEN [n |-> 0, rest |-> s, ok |-> FALSE]
    ELSE IF ~isDigit(s, 1)
    THEN IF fixed THEN [n |-> 0, rest |-> s, ok |-> FALSE]
         ELSE [n |-> DigitVal(s[1]), rest |-> Drop(s, 1), ok |-> TRUE]
    ELSE [n |-> DigitVal(s[1]) * 10 + DigitVal(s[2]), rest |-> Drop(s, 2), ok |-> TRUE]

\* The digits of a fraction of a second as nanoseconds (nine digits at most).
RECURSIVE fracNanos(_, _, _)
fracNanos(s, i, scale) ==
    IF ~isDigit(s, i) \/ scale = 0 THEN 0
    ELSE DigitVal(s[i + 1]) * scale + fracNanos(s, i + 1, scale \div 10)

RECURSIVE digitsFrom(_, _)
digitsFrom(s, i) == IF isDigit(s, i) THEN 1 + digitsFrom(s, i + 1) ELSE 0

daysIn(month, year) ==
    IF month = 2
    THEN IF year % 4 = 0 /\ (year % 100 # 0 \/ year % 400 = 0) THEN 29 ELSE 28
    ELSE IF month \in {4, 6, 9, 11} THEN 30 ELSE 31

\* The chunks of TimeFormat "2006:01:02T15:04:05" and of exTimeFormat, the
\* same followed by the text "Z".
TimeFormat == <<"2006", ":", "01", ":", "02", "T", "15", ":", "04", ":", "05">>
exTimeFormat == TimeFormat \o <<"Z">>

\* len(TimeFormat)
TimeFormatLen == 19

\* The loop of time.Parse over the chunks of the layout: [tm, ok]
RECURSIVE parseChunks(_, _, _)
parseChunks(layout, value, tm) ==
    IF layout = <<>>
    THEN [tm |-> tm,
          ok |-> value = <<>> /\ tm.D >= 1 /\ tm.D <= daysIn(tm.M, tm.Y)]
    ELSE
    LET c == Head(layout)
        fail == [tm |-> tm, ok |-> FALSE]
    IN  IF c = "2006"
        THEN IF Len(value) >= 4 /\ \A i \in 0..3 : isDigit(value, i)
             THEN parseChunks(Tail(layout), Drop(value, 4),
                      [tm EXCEPT !.Y = DigitVal(value[1]) * 1000 + DigitVal(value[2]) * 100
                                       + DigitVal(value[3]) * 10 + DigitVal(value[4])])
             ELSE fail
        ELSE IF c \in {"01", "02", "15", "04", "05"}
        THEN LET g == getnum(value, c # "15")
                 inRange == CASE c = "01" -> g.n >= 1 /\ g.n <= 12
                              [] c = "02" -> TRUE
                              [] c = "15" -> g.n < 24
                              [] OTHER -> g.n < 60
                 \* a fraction after the seconds is read though the layout has none
                 frac == c = "05" /\ Len(g.rest) >= 2 /\ g.rest[1] \in {".", ","}
                             /\ isDigit(g.rest, 1)
                 left == IF frac THEN Drop(g.rest, 1 + digitsFrom(g.rest, 1)) ELSE g.rest
                 tm1 == CASE c = "01" -> [tm EXCEPT !.M = g.n]
                          [] c = "02" -> [tm EXCEPT !.D = g.n]
                          [] c = "15" -> [tm EXCEPT !.h = g.n]
                          [] c = "04" -> [tm EXCEPT !.mi = g.n]
                          [] OTHER -> [tm EXCEPT !.s = g.n,
                                                 !.ns = IF frac
                                                        THEN fracNanos(g.rest, 1, 100000000)
                                                        ELSE 0]
             IN  IF ~g.ok \/ ~inRange THEN fail
                 ELSE parseChunks(Tail(layout), left, tm1)
        ELSE IF value # <<>> /\ value[1] = c
        THEN parseChunks(Tail(layout), Drop(value, 1), tm)
        ELSE fail

\* time.Parse(layout, value) and time.ParseInLocation(layout, value, loc):
\* [tm, ok], tm the zero Time when the value does not parse.
time_ParseInLocation(layout, value, loc) ==
    Let(parseChunks(layout, value, [ZeroTm EXCEPT !.loc = loc]), LAMBDA r :
        IF r.ok THEN r ELSE [tm |-> ZeroTm, ok |-> FALSE])

time_Parse(layout, value) == time_ParseInLocation(layout, value, "UTC")

\* t.Ascii() of a *Tag: the entry is [ascii |-> string], [other |-> TRUE], or
\* Absent for a nil Tag.
Ascii(t) ==
    IF "ascii" \in DOMAIN t THEN [s |-> t.ascii, ok |-> TRUE]
    ELSE [s |-> <<>>, ok |-> FALSE]

\* timePart(t): [tm, islocal, ok, panic]
timePart(t) ==
    LET a == Ascii(t)
        done(tm, islocal, ok) ==
            [tm |-> tm, islocal |-> islocal, ok |-> ok, panic |-> ""]
    IN  IF ~a.ok THEN done(ZeroTm, FALSE, FALSE)
        ELSE
        Let(time_Parse(exTimeFormat, a.s), LAMBDA p1 :
            IF p1.ok THEN done(p1.tm, FALSE, TRUE)
            ELSE
            Let(time_ParseInLocation(TimeFormat, a.s, "Local"), LAMBDA p2 :
                IF ~p2.ok THEN done(p2.tm, TRUE, TRUE)
                ELSE IF Len(a.s) < TimeFormatLen
                THEN [tm |-> p2.tm, islocal |-> FALSE, ok |-> FALSE,
                      panic |-> "slice bounds out of range"]
                ELSE
                Let(time_ParseInLocation(TimeFormat, Slice(a.s, 0, TimeFormatLen),
                                         "Local"), LAMBDA p3 :
                    IF p3.ok THEN done(p3.tm, TRUE, TRUE)
                    ELSE done(ZeroTm, FALSE, FALSE))))

\* timeFromTags, lines 160-173: the digits at the head of subs as a Duration
\* of nanoseconds; [nanos, res]
RECURSIVE subSecLoop(_, _, _, _)
subSecLoop(subs, i, nanos, res) ==
    IF i > Len(subs) \/ ~isDigit(subs, i - 1) THEN [nanos |-> nanos, res |-> res]
    ELSE LET n1 == nanos * 10 + DigitVal(subs[i])
             r1 == res \div 10
         IN  IF r1 = 0 THEN [nanos |-> n1, res |-> r1]
             ELSE subSecLoop(subs, i + 1, n1, r1)

\* timeFromTags(t, subt): [tm, islocal, ok, panic]
timeFromTags(t, subt) ==
    Let(timePart(t), LAMBDA r :
        IF ~r.ok THEN r
        ELSE LET sa == Ascii(subt) IN
             IF ~sa.ok THEN r
             ELSE LET l == subSecLoop(sa.s, 1, 0, 1000000000) IN
                  [r EXCEPT !.tm.ns = @ + l.nanos * l.res])

\* x.Tag(id): the entry of the tag, Absent for nil.
Exif_Tag(x, id) == IF id \in DOMAIN x THEN x[id] ELSE Absent

\* x.Time(timeTag, subSecTag)
Exif_Time(x, timeTag, subSecTag) ==
    timeFromTags(Exif_Tag(x, "DateTimeOriginal"), Exif_Tag(x, "SubSecTimeOriginal"))

----------------------------------------------------------------------------
(* Time inputs: Exif values with the original and the digitized time and    *)
(* their sub-second entries present or not, and the calls made with the     *)
(* two pairs of tags.                                                       *)

Num2(n) == <<DigitChars[(n \div 10) + 1], DigitChars[(n % 10) + 1]>>

Num4(n) == Num2(n \div 100) \o Num2(n % 100)

\* The date and the time of day joined by sep, the hour written as hh.
TimeText(Y, M, D, sep, hh, mi, s) ==
    Num4(Y) \o <<":">> \o Num2(M) \o <<":">> \o Num2(D) \o <<sep>> \o hh
        \o <<":">> \o Num2(mi) \o <<":">> \o Num2(s)

TimeTexts ==
    { TimeText(2020, 5, 17, "T", Num2(10), 20, 30),
      TimeText(2020, 5, 17, "T", Num2(10), 20, 30) \o <<"Z">>,
      TimeText(2021, 6, 18, "T", Num2(11), 21, 31),
      TimeText(2020, 5, 17, " ", Num2(10), 20, 30),
      TimeText(2020, 5, 17, "T", <<"9">>, 20, 30),
      <<"n", "/", "a">> }

TimeEntries == {[ascii |-> s] : s \in TimeTexts} \cup {[other |-> TRUE], Absent}

SubSecEntries == {[ascii |-> <<"5">>], [ascii |-> <<"9", "9", "8">>], Absent}

TimeTagPairs ==
    { <<"DateTimeOriginal", "SubSecTimeOriginal">>,
      <<"DateTimeDigitized", "SubSecTimeDigitized">> }

InitTime ==
    /\ tmTags \in {[DateTimeOriginal |-> a, SubSecTimeOriginal |-> b,
                    DateTimeDigitized |-> c, SubSecTimeDigitized |-> d] :
                       a \in TimeEntries, b \in SubSecEntries,
                       c \in TimeEntries, d \in SubSecEntries}
    /\ tmLast = [op |-> "none"]
    /\ DirIdle
    /\ NoStream
    /\ ScanIdle
    /\ RewriteIdle
    /\ Mp4Idle
    /\ ExifIdle
    /\ XmpIdle
    /\ MetaIdle
    /\ FileIdle

\* t, _, ok := x.Time(timeTag, subSecTag)
DoTime ==
    /\ tmLast.op = "none"
    /\ \E p \in TimeTagPairs :
          tmLast' = [op |-> "Time", timeTag |-> p[1], subSecTag |-> p[2],
                     ret |-> Exif_Time(tmTags, p[1], p[2])]
    /\ UNCHANGED <<tmTags, timeFrame>>

NextTime == DoTime

SpecTime == InitTime /\ [][NextTime]_vars

\* s has the form YYYY:MM:DDThh:mm:ss, or that followed by Z.
HasTimeForm(s) ==
    /\ Len(s) = TimeFormatLen \/ (Len(s) = TimeFormatLen + 1 /\ s[Len(s)] = "Z")
    /\ \A i \in {0, 1, 2, 3, 5, 6, 8, 9, 11, 12, 14, 15, 17, 18} : isDigit(s, i)
    /\ s[5] = ":" /\ s[8] = ":" /\ s[11] = "T" /\ s[14] = ":" /\ s[17] = ":"

\* The number written at places a+1..b of s.
RECURSIVE NumberAt(_, _, _)
NumberAt(s, a, b) ==
    IF a >= b THEN 0 ELSE NumberAt(s, a, b - 1) * 10 + DigitVal(s[b])

\* The date and time of day written in s, with the fraction of a second
\* written in the sub-second entry.
WrittenTime(s, sub) ==
    [Y |-> NumberAt(s, 0, 4), M |-> NumberAt(s, 5, 7), D |-> NumberAt(s, 8, 10),
     h |-> NumberAt(s, 11, 13), mi |-> NumberAt(s, 14, 16), s |-> NumberAt(s, 17, 19),
     ns |-> IF "ascii" \in DOMAIN sub THEN fracNanos(sub.ascii, 0, 100000000) ELSE 0]

Clock(tm) == [k \in {"Y", "M", "D", "h", "mi", "s", "ns"} |-> tm[k]]

\* C30: Time(timeTag, subSecTag) returns ok = true exactly when the entry of
\* timeTag is a string of the form YYYY:MM:DDThh:mm:ss with or without a
\* trailing Z, and then the time is the one written there with the fraction
\* written in the entry of subSecTag.
C30_TimeFromTags ==
    tmLast.op = "Time" =>
        LET e == Exif_Tag(tmTags, tmLast.timeTag)
            sub == Exif_Tag(tmTags, tmLast.subSecTag)
            matches == "ascii" \in DOMAIN e /\ HasTimeForm(e.ascii)
        IN  /\ tmLast.ret.panic = ""
            /\ tmLast.ret.ok <=> matches
            /\ matches => Clock(tmLast.ret.tm) = WrittenTime(e.ascii, sub)

====
